---- MODULE Spec2Model ----
(***************************************************************************)
(* A model of mapiproxy: the head/tail abbreviating writer (headtail.rs),  *)
(* the renderer that writes frames through it (render.rs), the MAPI        *)
(* framing analyzer and the per-connection accumulator (mapi/mod.rs), the  *)
(* byte forwarding of the proxy engine and the event channel between the   *)
(* reactor thread and the consumer (main.rs).                              *)
(*                                                                         *)
(* Bytes are natural numbers.  Rust's 0-based offsets are kept as they are *)
(* in the code; a TLA+ sequence is indexed from 1, so offset p of a Vec is *)
(* element p + 1 of the sequence that models it.                           *)
(***************************************************************************)
EXTENDS Integers, Sequences, FiniteSets, TLC

VARIABLES
    ht,       \* the HeadTail writer: sink, buffers, capacities, state
    tail,     \* the Tail value the caller holds between finish_tail and put_tail
    phase,    \* where the caller of the writer is: idle, region, finished, done
    reg,      \* history of the current region: what was requested and what was put
    roomed,   \* make_room has run (in nl or put_tail) since the last byte was added
    rd,       \* the Renderer's fields other than its writer, and its caller's counts
    acc,      \* one Accumulator: level, analyzer, buf, error_reported
    calls,    \* the calls the accumulator has made on the renderer, in order
    seen,     \* history of the analyzer: what each split_chunk call returned
    peer,     \* the sender of the stream: what it has sent and where it is in it
    link,     \* one proxied connection: its state and the event that ended it
    fwd,      \* its two directions: bytes to come, read, queued, written
    queue,    \* the events in the channel between reactor and consumer
    emitted,  \* the events the reactor's handler has sent, in order
    handled,  \* the events mapi::State::handle has handled, in order
    threads,  \* the reactor thread and the consumer: running or not
    proc,     \* the process: the Ctrl-C handler's flag and calls, the exit status
    mapi_state, \* mapi::State: the accumulators of every connection, what it rendered
    dial,     \* the outbound connection attempts of the accepted connections
    pcap,     \* the pcap reader: the Tracker's flow and events, or the pcapng resolution
    addr,     \* an address given by the user: parsed, displayed, parsed again
    abbr      \* a call of abbreviate: its arguments and what it returned

writerVars == <<ht, tail, phase, reg, roomed, rd>>
mapiVars == <<acc, calls, seen, peer>>
proxyVars == <<link, fwd>>
chanVars == <<queue, emitted, handled, threads>>
restVars == <<proc, mapi_state, dial, pcap, addr, abbr>>

vars == <<writerVars, mapiVars, proxyVars, chanVars, restVars>>

-----------------------------------------------------------------------------
(* Bounds of the model *)

\* Capacity handed to HeadTail::with_capacity (the program uses 4 * 8192).
Cap == 4

\* nhead and ntail range over 0..MaxN.
MaxN == 2

\* Total number of bytes (data bytes and newlines) the caller writes.
MaxInput == 5

\* Number of messages and frames handed to the renderer.
MaxRecords == 2
\* The largest brief the renderer is given, and the number of put and nl
\* calls its caller makes.
MaxBrief == 1
MaxBody == 3

\* Number of bytes of the stream one accumulator is given, and the number of
\* Data events that carry them.
MaxStream == 8
MaxEvents == 2

\* Capacity of a direction's copy buffer, and the number of bytes each side
\* of a proxied connection sends.
CopyBuf == 2
MaxSend == 3

\* Capacity of the event channel (the program uses 500), and the number of
\* events the reactor emits.
ChanCap == 2
MaxEmit == 5

\* Number of times Ctrl-C is pressed.
MaxSignals == 3

\* Number of bytes the Data events of a connection carry together.
MaxTraffic == 5

\* Number of bytes the Data events of two connections carry together.
MaxShared == 3

\* Number of bytes two connections carry while their senders may stop in
\* the middle of a frame.
MaxFaulty == 2

\* Number of endpoints the forward address resolves to, and of times the
\* outbound socket is reported writable before its connect has ended.
MaxEndpoints == 3
MaxWaits == 1

\* Number of packets in a capture, and of segments the client's payload is
\* sent in.
MaxPackets == 5
MaxSegments == 4

-----------------------------------------------------------------------------
(* Helpers *)

Max(a, b) == IF a >= b THEN a ELSE b

Min(a, b) == IF a <= b THEN a ELSE b

\* b'\n'
NL == 10

\* The newline-free bytes the caller passes to put: the letter a, the digit 0.
DataBytes == {97, 48}

RECURSIVE Concat(_)
Concat(ss) == IF ss = <<>> THEN <<>> ELSE Head(ss) \o Concat(Tail(ss))

\* The lines of s, each with its terminating newline; an unterminated rest
\* is the last element.
RECURSIVE SplitLines(_, _)
SplitLines(s, cur) ==
    IF s = <<>> THEN (IF cur = <<>> THEN <<>> ELSE <<cur>>)
    ELSE IF Head(s) = NL THEN <<Append(cur, NL)>> \o SplitLines(Tail(s), <<>>)
    ELSE SplitLines(Tail(s), Append(cur, Head(s)))

LinesOf(s) == SplitLines(s, <<>>)

\* Number of newlines in s.
CountNl(s) == Cardinality({i \in DOMAIN s : s[i] = NL})

\* Every line of s is terminated.
Terminated(s) == s = <<>> \/ s[Len(s)] = NL

-----------------------------------------------------------------------------
(* headtail.rs: the writer *)

\* Vec<u8> growth on push / extend_from_slice: the capacity is kept when the
\* bytes fit, else it becomes max(8, 2 * cap, required) (amortized doubling).
VecGrow(cap, needed) ==
    IF needed <= cap THEN cap ELSE Max(8, Max(2 * cap, needed))

\* TailState::default()
EmptyTS == [head |-> <<>>, headcap |-> 0, lines |-> <<>>, oldest_idx |-> 0,
            newlines |-> 0, ntail |-> 0]

\* HeadTail::with_capacity.  aux1 is always empty when it is read (it is
\* cleared on every take), so only its capacity is state; aux2 is cleared and
\* resized on every use and holds no state.
HTNew(cap) ==
    [out |-> <<>>, buf |-> <<>>, bufcap |-> cap, state |-> "Passthrough",
     lines_left |-> 0, ntail |-> 0, ts |-> EmptyTS, aux1cap |-> cap,
     panicked |-> FALSE]

\* TailState::line
TSLine(ts, i) == ts.lines[((ts.oldest_idx + i) % Len(ts.lines)) + 1]

\* TailState::oldest_line
OldestLine(ts) == TSLine(ts, 0)

\* TailState::newest_line
NewestLine(ts) == TSLine(ts, Len(ts.lines) - 1)

\* A newline that overwrites the oldest ring entry without making the
\* next-oldest the oldest.
TSNewlineNoAdvance(ts, pos) ==
    [ts EXCEPT !.lines[ts.oldest_idx + 1] = pos,
               !.newlines = @ + 1]

\* TailState::newline
TSNewline(ts, pos) ==
    [ts EXCEPT !.lines[ts.oldest_idx + 1] = pos,
               !.oldest_idx = (ts.oldest_idx + 1) % Len(ts.lines),
               !.newlines = @ + 1]

\* A flush that writes the active buffer in every state.
FlushActive(h) ==
    IF h.buf # <<>>
    THEN [h EXCEPT !.out = @ \o h.buf, !.buf = <<>>]
    ELSE h

\* HeadTail::flush: writes the buffer that currently holds the head.
Flush(h) ==
    IF h.state = "Tail"
    THEN IF h.ts.head # <<>>
         THEN [h EXCEPT !.out = @ \o h.ts.head, !.ts.head = <<>>]
         ELSE h
    ELSE IF h.buf # <<>>
         THEN [h EXCEPT !.out = @ \o h.buf, !.buf = <<>>]
         ELSE h

\* A compact that drains the buffer and leaves the ring offsets as they were.
CompactNoShift(h) ==
    IF h.state # "Tail" THEN h
    ELSE LET tail_start == OldestLine(h.ts) IN
         IF tail_start = 0 THEN h
         ELSE [h EXCEPT !.buf = SubSeq(@, tail_start + 1, Len(@))]

\* HeadTail::compact.  The subtraction of tail_start from every ring entry
\* is unsigned: an entry below tail_start is an arithmetic overflow.
Compact(h) ==
    IF h.state # "Tail" THEN h
    ELSE LET tail_start == OldestLine(h.ts) IN
         IF tail_start = 0 THEN h
         ELSE IF \E i \in DOMAIN h.ts.lines : h.ts.lines[i] < tail_start
              THEN [h EXCEPT !.panicked = TRUE]
              ELSE [h EXCEPT !.buf = SubSeq(@, tail_start + 1, Len(@)),
                             !.ts.lines = [i \in DOMAIN @ |-> @[i] - tail_start]]

\* A make_room that never compacts the buffer in Tail state.
MakeRoomNoCompact(h) ==
    IF h.bufcap - Len(h.buf) > h.bufcap \div 8 THEN h
    ELSE IF h.state # "Tail" THEN Flush(h)
    ELSE h

\* A make_room that in Tail state compacts up to half of the capacity.
MakeRoomHalf(h) ==
    LET capacity == h.bufcap
        used == Len(h.buf)
        free == capacity - used
    IN IF free > capacity \div 8 THEN h
       ELSE IF h.state # "Tail" THEN Flush(h)
       ELSE IF used - OldestLine(h.ts) <= capacity \div 2 THEN Compact(h)
       ELSE h

\* HeadTail::make_room
MakeRoom(h) ==
    LET capacity == h.bufcap
        used == Len(h.buf)
        free == capacity - used
    IN IF free > capacity \div 8 THEN h
       ELSE IF h.state # "Tail" THEN Flush(h)
       ELSE IF used - OldestLine(h.ts) <= capacity \div 4 THEN Compact(h)
       ELSE h

\* HeadTail::put
Put(h, data) ==
    [h EXCEPT !.buf = @ \o data,
              !.bufcap = VecGrow(@, Len(h.buf) + Len(data))]

\* HeadTail::switch_to_tail_mode
SwitchToTailMode(h, ntail) ==
    [h EXCEPT !.buf = <<>>,
              !.bufcap = h.aux1cap,
              !.aux1cap = 0,
              !.state = "Tail",
              !.lines_left = 0,
              !.ntail = 0,
              !.ts = [head |-> h.buf, headcap |-> h.bufcap,
                      lines |-> [i \in 1..(ntail + 1) |-> 0],
                      oldest_idx |-> 0, newlines |-> 0, ntail |-> ntail]]

\* An nl that in Head state never counts a line down.
NlNoCountdown(h) ==
    LET h1 == Put(h, <<NL>>)
        h2 == CASE h1.state = "Passthrough" -> h1
                [] h1.state = "Head" /\ h1.lines_left >= 2 -> h1
                [] h1.state = "Tail" ->
                       [h1 EXCEPT !.ts = TSNewline(@, Len(h1.buf))]
                [] h1.state = "Head" /\ h1.lines_left = 1 ->
                       SwitchToTailMode(h1, h1.ntail)
                [] OTHER -> [h1 EXCEPT !.panicked = TRUE]
    IN IF h2.panicked THEN h2 ELSE MakeRoom(h2)

\* HeadTail::nl
Nl(h) ==
    LET h1 == Put(h, <<NL>>)
        h2 == CASE h1.state = "Passthrough" -> h1
                [] h1.state = "Head" /\ h1.lines_left >= 2 ->
                       [h1 EXCEPT !.lines_left = @ - 1]
                [] h1.state = "Tail" ->
                       [h1 EXCEPT !.ts = TSNewline(@, Len(h1.buf))]
                [] h1.state = "Head" /\ h1.lines_left = 1 ->
                       SwitchToTailMode(h1, h1.ntail)
                [] OTHER -> [h1 EXCEPT !.panicked = TRUE]
    IN IF h2.panicked THEN h2 ELSE MakeRoom(h2)

\* HeadTail::head_tail
HeadTailOp(h, nhead, ntail) ==
    IF h.state # "Passthrough" THEN [h EXCEPT !.panicked = TRUE]
    ELSE IF nhead > 0
         THEN [h EXCEPT !.state = "Head", !.lines_left = nhead, !.ntail = ntail]
         ELSE SwitchToTailMode(h, ntail)

\* struct Tail; NoTail is the caller holding none.
NoTail == [held |-> FALSE, buf |-> <<>>, cap |-> 0, start |-> 0, skipped |-> 0]

\* A finish_tail whose skipped is a plain subtraction, not a saturating one.
FinishTailPlainSub(h) ==
    CASE h.state = "Passthrough" ->
             [ht |-> [h EXCEPT !.panicked = TRUE], tail |-> NoTail]
      [] h.state = "Head" ->
             [ht |-> [h EXCEPT !.state = "Passthrough", !.lines_left = 0,
                               !.ntail = 0, !.aux1cap = 0],
              tail |-> [held |-> TRUE, buf |-> <<>>, cap |-> h.aux1cap,
                        start |-> 0, skipped |-> 0]]
      [] h.state = "Tail" ->
             [ht |-> [h EXCEPT !.buf = h.ts.head, !.bufcap = h.ts.headcap,
                               !.state = "Passthrough", !.ts = EmptyTS],
              tail |-> [held |-> TRUE, buf |-> h.buf, cap |-> h.bufcap,
                        start |-> OldestLine(h.ts),
                        skipped |-> h.ts.newlines - h.ts.ntail]]

\* A finish_tail that in Tail state leaves the active buffer empty instead
\* of giving it the head snapshot.
FinishTailDropsHead(h) ==
    CASE h.state = "Passthrough" ->
             [ht |-> [h EXCEPT !.panicked = TRUE], tail |-> NoTail]
      [] h.state = "Head" ->
             [ht |-> [h EXCEPT !.state = "Passthrough", !.lines_left = 0,
                               !.ntail = 0, !.aux1cap = 0],
              tail |-> [held |-> TRUE, buf |-> <<>>, cap |-> h.aux1cap,
                        start |-> 0, skipped |-> 0]]
      [] h.state = "Tail" ->
             [ht |-> [h EXCEPT !.buf = <<>>, !.bufcap = h.ts.headcap,
                               !.state = "Passthrough", !.ts = EmptyTS],
              tail |-> [held |-> TRUE, buf |-> h.buf, cap |-> h.bufcap,
                        start |-> OldestLine(h.ts),
                        skipped |-> Max(0, h.ts.newlines - h.ts.ntail)]]

\* HeadTail::finish_tail: the writer afterwards (ht) and the Tail returned.
FinishTail(h) ==
    CASE h.state = "Passthrough" ->
             [ht |-> [h EXCEPT !.panicked = TRUE], tail |-> NoTail]
      [] h.state = "Head" ->
             [ht |-> [h EXCEPT !.state = "Passthrough", !.lines_left = 0,
                               !.ntail = 0, !.aux1cap = 0],
              tail |-> [held |-> TRUE, buf |-> <<>>, cap |-> h.aux1cap,
                        start |-> 0, skipped |-> 0]]
      [] h.state = "Tail" ->
             [ht |-> [h EXCEPT !.buf = h.ts.head, !.bufcap = h.ts.headcap,
                               !.state = "Passthrough", !.ts = EmptyTS],
              tail |-> [held |-> TRUE, buf |-> h.buf, cap |-> h.bufcap,
                        start |-> OldestLine(h.ts),
                        skipped |-> Max(0, h.ts.newlines - h.ts.ntail)]]

\* The whole tail buffer, its start offset ignored.
TailBytesWhole(t) == t.buf

\* Tail bytes that start one byte early, at the newline in front of the
\* oldest retained line.
TailBytesFromNewline(t) == SubSeq(t.buf, Max(t.start, 1), Len(t.buf))

\* impl AsRef<[u8]> for Tail
TailBytes(t) == SubSeq(t.buf, t.start + 1, Len(t.buf))

\* HeadTail::put_tail
PutTail(h, t) ==
    LET data == TailBytes(t)
        free == h.bufcap - Len(h.buf)
        h1 == IF Len(data) > free THEN Flush(h) ELSE h
        swap == t.start = 0 /\ h1.buf = <<>>
        h2 == IF swap
              THEN [h1 EXCEPT !.buf = t.buf, !.bufcap = t.cap]
              ELSE Put(h1, data)
        h3 == MakeRoom(h2)
    IN [h3 EXCEPT !.aux1cap = IF swap THEN h1.bufcap ELSE t.cap]

-----------------------------------------------------------------------------------------------------------------------------------------------------
(* A caller of the writer: regions bracketed by head_tail and finish_tail *)

\* The caller of this specification opens one region, writes into it, ends
\* it with finish_tail, may write a line of its own, and puts the tail back.
\* (The renderer's specification below goes through region after region.)
\* total counts every byte the caller has written.
NoRegion == [nhead |-> 0, ntail |-> 0, pre |-> <<>>, input |-> <<>>,
             mid |-> <<>>, total |-> 0]

\* Record data in the history of the region: input is what was written
\* between head_tail and finish_tail, mid between finish_tail and put_tail.
Record(data) ==
    LET r == [reg EXCEPT !.total = @ + Len(data)] IN
    IF phase = "region" THEN [r EXCEPT !.input = @ \o data]
    ELSE [r EXCEPT !.mid = @ \o data]

\* The variables of the other parts of the program, while they are not run.
NoRenderer == [colors |-> "none", abbreviate |-> -1, color_stack |-> <<>>,
               current_style |-> "Normal", desired_style |-> "Normal",
               at_start |-> TRUE, records |-> 0, foot |-> <<>>]

NoProxy ==
    /\ link = [state |-> "Closed", event |-> "none"]
    /\ fwd = <<>>

NoChan ==
    /\ queue = <<>>
    /\ emitted = <<>>
    /\ handled = <<>>
    /\ threads = [reactor |-> "ended", consumer |-> "ended", pending |-> <<>>,
                  failed |-> 0]

NoMapi ==
    /\ acc = [level |-> "Raw", analyzer |-> "none", buf |-> <<>>,
              error_reported |-> FALSE]
    /\ calls = <<>>
    /\ seen = [loops |-> <<>>, cls |-> {}, marks |-> <<>>, end |-> 0,
              start |-> 0, before |-> <<>>, was_level |-> "Raw", writes |-> 0]
    /\ peer = [sent |-> <<>>, at |-> "lo", need |-> 0, payload |-> 0,
               events |-> 0, eof |-> FALSE, unix |-> FALSE, eof_at |-> -1]

NoSignal ==
    proc = [triggered |-> FALSE, invocations |-> 0, trigger_calls |-> 0,
            exit |-> -1, exit_by |-> "none"]

NoEvent == [event |-> "none", id |-> 0, direction |-> "none", calls |-> <<>>]

NoState ==
    mapi_state = [level |-> "Raw", accs |-> <<>>, conns |-> <<>>,
                  last |-> NoEvent]

NoDial == dial = <<>>

NoPcap == pcap = <<>>

NoAddr == addr = <<>>

NoAbbr == abbr = <<>>

NoRest == NoSignal /\ NoState /\ NoDial /\ NoPcap /\ NoAddr /\ NoAbbr

InitHT ==
    /\ NoMapi
    /\ NoProxy
    /\ NoChan
    /\ NoRest
    /\ ht = HTNew(Cap)
    /\ tail = NoTail
    /\ phase = "idle"
    /\ reg = NoRegion
    /\ roomed = TRUE
    /\ rd = NoRenderer

\* head_tail(nhead, ntail); in a region it panics ("already in head-tail mode").
HTHeadTail(nhead, ntail) ==
    /\ ~ht.panicked
    /\ phase \in {"idle", "region"}
    /\ ht' = HeadTailOp(ht, nhead, ntail)
    /\ IF ht'.panicked
       THEN UNCHANGED <<phase, reg>>
       ELSE /\ phase' = "region"
            /\ reg' = [nhead |-> nhead, ntail |-> ntail,
                       pre |-> ht.out \o ht.buf, input |-> <<>>,
                       mid |-> <<>>, total |-> reg.total]
    /\ UNCHANGED <<tail, roomed, rd>>
    /\ UNCHANGED <<mapiVars, proxyVars, chanVars, restVars>>

HTPut(b) ==
    /\ ~ht.panicked
    /\ phase \in {"region", "finished"}
    /\ reg.total < MaxInput
    /\ ht' = Put(ht, <<b>>)
    /\ reg' = Record(<<b>>)
    /\ roomed' = FALSE
    /\ UNCHANGED <<tail, phase, rd>>
    /\ UNCHANGED <<mapiVars, proxyVars, chanVars, restVars>>

HTNl ==
    /\ ~ht.panicked
    /\ phase \in {"region", "finished"}
    /\ reg.total < MaxInput
    /\ ht' = Nl(ht)
    /\ reg' = Record(<<NL>>)
    /\ roomed' = TRUE
    /\ UNCHANGED <<tail, phase, rd>>
    /\ UNCHANGED <<mapiVars, proxyVars, chanVars, restVars>>

HTFlush ==
    /\ ~ht.panicked
    /\ ht' = Flush(ht)
    /\ UNCHANGED <<tail, phase, reg, roomed, rd>>
    /\ UNCHANGED <<mapiVars, proxyVars, chanVars, restVars>>

HTCompact ==
    /\ ~ht.panicked
    /\ ht' = Compact(ht)
    /\ UNCHANGED <<tail, phase, reg, roomed, rd>>
    /\ UNCHANGED <<mapiVars, proxyVars, chanVars, restVars>>

\* finish_tail; outside a region it panics ("can only call finish_tail() in
\* tail mode").
HTFinishTail ==
    /\ ~ht.panicked
    /\ phase \in {"idle", "region"}
    /\ LET r == FinishTail(ht) IN
       /\ ht' = r.ht
       /\ tail' = r.tail
       /\ phase' = IF r.ht.panicked THEN phase ELSE "finished"
    /\ roomed' = FALSE
    /\ UNCHANGED <<reg, rd>>
    /\ UNCHANGED <<mapiVars, proxyVars, chanVars, restVars>>

HTPutTail ==
    /\ ~ht.panicked
    /\ phase = "finished"
    /\ ht' = PutTail(ht, tail)
    /\ tail' = NoTail
    /\ phase' = "done"
    /\ roomed' = TRUE
    /\ UNCHANGED <<reg, rd>>
    /\ UNCHANGED <<mapiVars, proxyVars, chanVars, restVars>>

NextHT ==
    \/ \E nhead, ntail \in 0..MaxN : HTHeadTail(nhead, ntail)
    \/ \E b \in DataBytes : HTPut(b)
    \/ HTNl
    \/ HTFlush
    \/ HTCompact
    \/ HTFinishTail
    \/ HTPutTail

SpecHT == InitHT /\ [][NextHT]_vars

-----------------------------------------------------------------------------
(* render.rs: the renderer, which writes through the head/tail writer *)

\* The UTF-8 bytes of the frame markers and the bytes of the fixed texts.
GlyphTop == <<226, 148, 140>>
GlyphBar == <<226, 148, 130>>
GlyphTee == <<226, 148, 156>>
GlyphEnd == <<226, 148, 148>>
GlyphMsg == <<226, 128, 163>>
TextSkipped == <<32, 40, 115, 107, 105, 112, 112, 101, 100, 32>>
TextLine == <<108, 105, 110, 101>>
TextLines == <<108, 105, 110, 101, 115>>
TextTime == <<84, 73, 77, 69, 32, 105, 115>>

\* Display of an unsigned number: its decimal digits.
RECURSIVE Decimal(_)
Decimal(n) == IF n < 10 THEN <<48 + n>> ELSE Append(Decimal(n \div 10), 48 + (n % 10))

\* colors.rs: the escape sequences of a color table; NO_COLORS has none.
EscEnable(colors, name) ==
    IF colors = "none" THEN <<>>
    ELSE CASE name = "normal" -> <<27, 91, 51, 57, 109>>
           [] name = "red" -> <<27, 91, 51, 49, 109>>
           [] name = "green" -> <<27, 91, 51, 50, 109>>
           [] name = "cyan" -> <<27, 91, 51, 54, 109>>
           [] name = "blue" -> <<27, 91, 51, 52, 109>>
           [] name = "bold" -> <<27, 91, 49, 109>>

EscDisable(colors, name) ==
    IF colors # "none" /\ name = "bold" THEN <<27, 91, 48, 109>> ELSE <<>>

\* Renderer::new, then set_brief when --brief is given (abbreviate = -1 is None).
RNew(colors, brief) ==
    [out |-> HTNew(Cap), colors |-> colors, abbreviate |-> brief,
     color_stack |-> <<>>, current_style |-> "Normal",
     desired_style |-> "Normal", at_start |-> TRUE]

\* The element of a set of one: a value is computed once and named.
The(S) == CHOOSE v \in S : TRUE

\* Renderer::style (the style it returns is the desired_style before the call)
SetStyle(r, style) == [r EXCEPT !.desired_style = style]

\* The names of the sequences Renderer::switch_style pushes for a style.
StyleSequences(style) ==
    CASE style = "Normal" -> <<"normal">>
      [] style = "Error" -> <<"red", "bold">>
      [] style = "Frame" -> <<"cyan">>
      [] style = "Header" -> <<"bold">>
      [] style = "Whitespace" -> <<"red">>
      [] style = "Digit" -> <<"green">>
      [] style = "Letter" -> <<"blue">>

\* The disable sequences of the stack, popped from its top.
RECURSIVE PopAll(_, _)
PopAll(colors, stack) ==
    IF stack = <<>> THEN <<>>
    ELSE EscDisable(colors, stack[Len(stack)])
             \o PopAll(colors, SubSeq(stack, 1, Len(stack) - 1))

\* Renderer::switch_style with Renderer::push_style
SwitchStyle(r) ==
    The({IF v.desired_style = v.current_style THEN v
         ELSE LET names == StyleSequences(v.desired_style)
                  off == PopAll(v.colors, v.color_stack)
                  on == Concat([i \in DOMAIN names |-> EscEnable(v.colors, names[i])])
              IN [v EXCEPT !.out = Put(Put(@, off), on),
                           !.color_stack = names,
                           !.current_style = v.desired_style] :
             v \in {r}})

\* Renderer::nl
RNl(r) ==
    The({LET old_style == v.desired_style
             r1 == SwitchStyle(SetStyle(v, "Normal"))
         IN [r1 EXCEPT !.out = Nl(@), !.desired_style = old_style,
                       !.at_start = TRUE] :
             v \in {r}})

\* Renderer::put
RPut(r, data) ==
    The({LET r1 == IF v.at_start
                   THEN LET old_style == v.desired_style
                            a == SwitchStyle(SetStyle(v, "Frame"))
                        IN [a EXCEPT !.out = Put(@, GlyphBar),
                                     !.desired_style = old_style,
                                     !.at_start = FALSE]
                   ELSE v
             r2 == SwitchStyle(r1)
         IN [r2 EXCEPT !.out = Put(@, data)] :
             v \in {r}})

\* Renderer::render_message
RenderMessage(r, context, message) ==
    LET r1 == SwitchStyle(SetStyle(r, "Frame"))
        r2 == [r1 EXCEPT !.out = Put(@, GlyphMsg \o context \o <<32>> \o message)]
        r3 == RNl(r2)
    IN [r3 EXCEPT !.out = Flush(@)]

\* Renderer::render_timing.  What TrackTime answers depends on the timestamps
\* of the events alone: print_sep is its register_activity, announce whether
\* its announcement is Some.
RenderTiming(r, print_sep, announce) ==
    LET r1 == IF print_sep THEN RNl(r) ELSE r
    IN IF announce THEN RNl(RenderMessage(r1, <<>>, TextTime)) ELSE r1

\* Renderer::message
RMessage(r, context, message, print_sep, announce) ==
    RenderMessage(RenderTiming(r, print_sep, announce), context, message)

\* Renderer::header; items is the text of the context and of the items.
RHeader(r, items, print_sep, announce) ==
    LET r1 == SwitchStyle(SetStyle(RenderTiming(r, print_sep, announce), "Frame"))
        r2 == [r1 EXCEPT !.out = Put(@, GlyphTop \o items)]
        r3 == [RNl(r2) EXCEPT !.at_start = TRUE]
    IN The({IF v.abbreviate >= 0
            THEN [v EXCEPT !.out = HeadTailOp(@, v.abbreviate, v.abbreviate)]
            ELSE v :
                v \in {r3}})

\* The separator line of Renderer::footer, without its newline.
SkippedLine(n) ==
    GlyphTee \o TextSkipped \o Decimal(n) \o <<32>>
             \o (IF n = 1 THEN TextLine ELSE TextLines) \o <<41>>

\* Renderer::footer's abbreviating part with the separator written for every
\* frame, those that skipped nothing included.
FooterTailAlways(r, t) ==
    LET old == r.desired_style
        r1 == SwitchStyle(SetStyle(r, "Frame"))
        r2 == [r1 EXCEPT !.out = Nl(Put(@, SkippedLine(t.skipped)))]
        r3 == [r2 EXCEPT !.out = PutTail(@, t)]
    IN SwitchStyle(SetStyle(r3, old))

\* Renderer::footer, the part under `if self.abbreviate.is_some()`: r is the
\* renderer after finish_tail has returned t.
FooterTail(r, t) ==
    The({LET old == v.desired_style
             r1 == SwitchStyle(SetStyle(v, "Frame"))
             n == u.skipped
             r2 == IF n > 0
                   THEN [r1 EXCEPT !.out = Nl(Put(@, SkippedLine(n)))]
                   ELSE r1
             r3 == [r2 EXCEPT !.out = PutTail(@, u)]
         IN SwitchStyle(SetStyle(r3, old)) :
             v \in {r}, u \in {t}})

\* Renderer::footer; items is the text of the items.  A panic of finish_tail
\* ends it there.
RFooter(r, items) ==
    The({The({LET r2 == IF r1.abbreviate >= 0
                        THEN FooterTail([r1 EXCEPT !.out = fin.ht], fin.tail)
                        ELSE r1
                  r3 == SwitchStyle(SetStyle(r2, "Frame"))
                  r4 == [r3 EXCEPT !.out = Put(@, GlyphEnd \o items)]
                  r5 == RNl(r4)
              IN IF r1.abbreviate >= 0 /\ fin.ht.panicked
                 THEN [r1 EXCEPT !.out = fin.ht]
                 ELSE [r5 EXCEPT !.out = Flush(@)] :
                  fin \in {FinishTail(r1.out)}}) :
             r1 \in {IF ~r.at_start THEN RNl(r) ELSE r}})

-----------------------------------------------------------------------------
(* The caller of the renderer (mapi::State::handle): messages, and frames    *)
(* opened by header, filled with put, nl and style, closed by footer.        *)

\* The renderer: the variable rd holds its fields, the variable ht its `out`.
Renderer == [out |-> ht, colors |-> rd.colors, abbreviate |-> rd.abbreviate,
             color_stack |-> rd.color_stack, current_style |-> rd.current_style,
             desired_style |-> rd.desired_style, at_start |-> rd.at_start]

FieldsOf(r) == [colors |-> r.colors, abbreviate |-> r.abbreviate,
                color_stack |-> r.color_stack, current_style |-> r.current_style,
                desired_style |-> r.desired_style, at_start |-> r.at_start,
                records |-> rd.records, foot |-> rd.foot]

\* The bytes an operation hands to the writer are the bytes it leaves in an
\* empty writer that does not abbreviate.
Recorder(r) == [r EXCEPT !.out = HTNew(0), !.abbreviate = -1]

Emitted(r) == r.out.out \o r.out.buf

\* The bytes of the writer that are in the sink or on their way to it.
Pending(h) == h.out \o (IF h.state = "Tail" THEN h.ts.head ELSE h.buf)

\* The text of a context, of items, of a message.
ItemTexts == {<<32, 120>>}

\* The bytes the caller puts in a frame.
BodyBytes == {97}

\* The style Binary::add gives a byte of Style::Normal.
StyleOf(b) ==
    IF b \in 48..57 THEN "Digit"
    ELSE IF b \in 97..122 \/ b \in 65..90 THEN "Letter"
    ELSE IF b \in {32, 9, 13, 10} THEN "Whitespace"
    ELSE "Normal"

InitRender ==
    /\ NoMapi
    /\ NoProxy
    /\ NoChan
    /\ NoRest
    /\ \E colors \in {"none", "vt100"}, brief \in -1..MaxBrief :
           LET r == RNew(colors, brief) IN
           /\ ht = r.out
           /\ rd = [colors |-> r.colors, abbreviate |-> r.abbreviate,
                    color_stack |-> r.color_stack,
                    current_style |-> r.current_style,
                    desired_style |-> r.desired_style,
                    at_start |-> r.at_start, records |-> 0, foot |-> <<>>]
    /\ tail = NoTail
    /\ phase = "idle"
    /\ reg = NoRegion
    /\ roomed = TRUE

\* TrackTime of the first record: register_activity finds no last_activity and
\* returns false, and now is not before next_announcement, which starts at zero.
FirstActivity(print_sep, announce) ==
    rd.records = 0 => (~print_sep /\ announce)

\* renderer.message(context, message), between frames
RenderMessageStep(text, print_sep, announce) ==
    /\ ~ht.panicked
    /\ phase \in {"idle", "done"}
    /\ rd.records < MaxRecords
    /\ FirstActivity(print_sep, announce)
    /\ LET r == RMessage(Renderer, text, text, print_sep, announce) IN
       /\ ht' = r.out
       /\ rd' = [FieldsOf(r) EXCEPT !.records = @ + 1]
    /\ phase' = "idle"
    /\ UNCHANGED <<tail, reg, roomed>>
    /\ UNCHANGED <<mapiVars, proxyVars, chanVars, restVars>>

\* renderer.header(context, items); inside a frame head_tail panics when the
\* renderer abbreviates.
RenderHeader(items, print_sep, announce) ==
    /\ ~ht.panicked
    /\ rd.records < MaxRecords
    /\ FirstActivity(print_sep, announce)
    /\ LET r == RHeader(Renderer, items, print_sep, announce) IN
       /\ ht' = r.out
       /\ rd' = [FieldsOf(r) EXCEPT !.records = @ + 1]
       /\ IF r.out.panicked
          THEN UNCHANGED <<phase, reg>>
          ELSE /\ phase' = "region"
               /\ reg' = [nhead |-> Max(0, rd.abbreviate),
                          ntail |-> Max(0, rd.abbreviate),
                          pre |-> Pending(r.out), input |-> <<>>, mid |-> <<>>,
                          total |-> reg.total]
    /\ UNCHANGED <<tail, roomed>>
    /\ UNCHANGED <<mapiVars, proxyVars, chanVars, restVars>>

\* renderer.style(style); renderer.put(data), inside a frame, the style that
\* of the byte (as in Binary::write_out)
RenderPut(b) ==
    /\ ~ht.panicked
    /\ phase = "region"
    /\ reg.total < MaxBody
    /\ LET r == RPut(SetStyle(Renderer, StyleOf(b)), <<b>>) IN
       /\ ht' = r.out
       /\ rd' = FieldsOf(r)
    /\ reg' = [reg EXCEPT
                   !.input = @ \o Emitted(RPut(SetStyle(Recorder(Renderer), StyleOf(b)), <<b>>)),
                   !.total = @ + 1]
    /\ UNCHANGED <<tail, phase, roomed>>
    /\ UNCHANGED <<mapiVars, proxyVars, chanVars, restVars>>

\* renderer.nl(), inside a frame
RenderNl ==
    /\ ~ht.panicked
    /\ phase = "region"
    /\ reg.total < MaxBody
    /\ LET r == RNl(Renderer) IN
       /\ ht' = r.out
       /\ rd' = FieldsOf(r)
    /\ reg' = [reg EXCEPT !.input = @ \o Emitted(RNl(Recorder(Renderer))),
                          !.total = @ + 1]
    /\ UNCHANGED <<tail, phase, roomed>>
    /\ UNCHANGED <<mapiVars, proxyVars, chanVars, restVars>>

\* renderer.footer(items); outside a frame finish_tail panics when the
\* renderer abbreviates.
RenderFooter(items) ==
    /\ ~ht.panicked
    /\ phase = "region" \/ rd.abbreviate >= 0
    /\ LET r == RFooter(Renderer, items) IN
       /\ ht' = r.out
       /\ rd' = [FieldsOf(r) EXCEPT !.foot = items]
       /\ phase' = IF r.out.panicked THEN phase ELSE "done"
    /\ reg' = IF phase = "region" /\ ~rd.at_start
              THEN [reg EXCEPT !.input = @ \o Emitted(RNl(Recorder(Renderer)))]
              ELSE reg
    /\ UNCHANGED <<tail, roomed>>
    /\ UNCHANGED <<mapiVars, proxyVars, chanVars, restVars>>

NextRender ==
    \/ \E text \in ItemTexts, print_sep, announce \in BOOLEAN :
           RenderMessageStep(text, print_sep, announce)
    \/ \E items \in ItemTexts, print_sep, announce \in BOOLEAN :
           RenderHeader(items, print_sep, announce)
    \/ \E b \in BodyBytes : RenderPut(b)
    \/ RenderNl
    \/ \E items \in ItemTexts : RenderFooter(items)

SpecRender == InitRender /\ [][NextRender]_vars

-----------------------------------------------------------------------------
(* Properties of the head/tail writer *)

\* The first nhead lines of input.
ExpectedHead(input, nhead) ==
    LET lines == LinesOf(input) IN
    Concat(SubSeq(lines, 1, Min(nhead, Len(lines))))

\* The lines of input after the first nhead that are among the last ntail.
ExpectedTail(input, nhead, ntail) ==
    LET lines == LinesOf(input) IN
    Concat(SubSeq(lines, Max(nhead, Len(lines) - ntail) + 1, Len(lines)))

\* C1: the Tail returned by finish_tail reports
\* skipped = max(0, total_lines - nhead - ntail), total_lines being the number
\* of nl calls between head_tail(nhead, ntail) and finish_tail.
C1_SkippedCount ==
    (phase = "finished" /\ tail.held) =>
        tail.skipped = Max(0, CountNl(reg.input) - reg.nhead - reg.ntail)

\* finish_tail has returned a Tail that reports skipped lines, after a head
\* and with a tail kept.
C1_Witness ==
    /\ phase = "finished"
    /\ tail.held
    /\ tail.skipped > 0
    /\ reg.nhead > 0
    /\ reg.ntail > 0

\* C2: after head_tail, lines each ended by nl, finish_tail, put_tail and a
\* flush, the sink holds for the region exactly the first nhead lines and then
\* the last ntail lines of the input (what the caller wrote between
\* finish_tail and put_tail lies between them).
C2_HeadThenTail ==
    (phase = "done" /\ ht.buf = <<>> /\ Terminated(reg.input)) =>
        ht.out = reg.pre \o ExpectedHead(reg.input, reg.nhead) \o reg.mid
                         \o ExpectedTail(reg.input, reg.nhead, reg.ntail)

\* A region with a head, a tail and skipped lines has been written out.
C2_Witness ==
    /\ phase = "done"
    /\ ht.buf = <<>>
    /\ Terminated(reg.input)
    /\ reg.nhead > 0
    /\ reg.ntail > 0
    /\ CountNl(reg.input) > reg.nhead + reg.ntail
    /\ \E i \in DOMAIN reg.input : reg.input[i] # NL

\* The bytes of the lines the ring retains and of the line in progress.
TailSize == IF ht.state = "Tail" THEN Len(ht.buf) - OldestLine(ht.ts) ELSE 0

\* The bytes of the head: the snapshot in Tail state, else the buffer itself.
HeadSize == IF ht.state = "Tail" THEN Len(ht.ts.head) ELSE Len(ht.buf)

\* C3 as claimed: the active buffer never holds more than
\* max(capacity, head_bytes + tail_bytes + one_line) bytes, capacity being the
\* configured capacity.
C3_Original == Len(ht.buf) <= Max(Cap, HeadSize + TailSize)

\* C3, amended: right after every nl and every put_tail the active buffer
\* holds at most max(cap - cap / 8 - 1, 4 * tail_bytes) bytes, cap being the
\* current capacity of the buffer, which grows beyond the configured one.
C3_AfterMakeRoom ==
    roomed => Len(ht.buf) <= Max(ht.bufcap - (ht.bufcap \div 8) - 1, 4 * TailSize)

\* After an nl in Tail state the buffer holds more than the configured
\* capacity.
C3_Witness ==
    /\ roomed
    /\ ht.state = "Tail"
    /\ Len(ht.buf) > Cap
    /\ ht.bufcap > Cap

\* A step that is a call of head_tail in Passthrough state: it opens a region.
IsHeadTail == phase = "idle" /\ phase' = "region"

\* A step that is a call of nl: the caller's history grows by a newline.
IsNl == reg' = Record(<<NL>>)

\* The writer is in Tail state as switch_to_tail_mode leaves it: an empty
\* tail buffer, no newline counted, a ring for ntail lines.
FreshTail(h, ntail) ==
    /\ h.state = "Tail"
    /\ h.buf = <<>>
    /\ h.ts.newlines = 0
    /\ h.ts.ntail = ntail

\* C25: the transitions of the writer.  From Passthrough, head_tail(nhead > 0,
\* ntail) enters Head with lines_left = nhead and head_tail(0, ntail) enters
\* Tail directly; in Head an nl with lines_left > 1 decrements lines_left by
\* one, and the nl with lines_left = 1 enters Tail with an empty tail buffer,
\* newline count 0 and the buffered bytes, that newline included, set aside as
\* the head snapshot; an nl in Passthrough leaves the state Passthrough.
C25_Transitions ==
    [][/\ IsHeadTail =>
             /\ ht.state = "Passthrough"
             /\ IF reg'.nhead > 0
                THEN /\ ht'.state = "Head"
                     /\ ht'.lines_left = reg'.nhead
                     /\ ht'.ntail = reg'.ntail
                     /\ ht'.buf = ht.buf
                ELSE /\ FreshTail(ht', reg'.ntail)
                     /\ ht'.ts.head = ht.buf
             /\ ht'.out = ht.out
       /\ IsNl =>
             CASE ht.state = "Passthrough" -> ht'.state = "Passthrough"
               [] ht.state = "Head" /\ ht.lines_left > 1 ->
                      /\ ht'.state = "Head"
                      /\ ht'.lines_left = ht.lines_left - 1
                      /\ ht'.ntail = ht.ntail
               [] ht.state = "Head" /\ ht.lines_left = 1 ->
                      /\ FreshTail(ht', ht.ntail)
                      /\ ht'.ts.head = ht.buf \o <<NL>>
                      /\ ht'.out = ht.out
               [] OTHER -> ht'.state = "Tail"
      ]_vars

\* The second nl of a region opened by head_tail(2, ntail) has just switched
\* the writer to Tail state, with both lines in the head snapshot.
C25_Witness ==
    /\ phase = "region"
    /\ reg.nhead = 2
    /\ CountNl(reg.input) = 2
    /\ Terminated(reg.input)
    /\ FreshTail(ht, reg.ntail)
    /\ Len(ht.ts.head) > 2

\* HeadTail::sanity_check: TRUE when none of its assertions fails.
SanityCheck(h) ==
    CASE h.state = "Passthrough" -> TRUE
      [] h.state = "Head" -> h.lines_left # 0
      [] h.state = "Tail" ->
             /\ Len(h.ts.lines) > 0
             /\ h.ts.oldest_idx < Len(h.ts.lines)
             /\ \A i \in 0..(Len(h.ts.lines) - 2) :
                    TSLine(h.ts, i) <= TSLine(h.ts, i + 1)
             /\ TSLine(h.ts, Len(h.ts.lines) - 1) <= Len(h.buf)

\* C26: the assertions of sanity_check hold in every state reachable through
\* head_tail, put, nl, flush, compact, finish_tail and put_tail: in Head
\* lines_left is not 0; in Tail the ring has exactly ntail + 1 entries,
\* oldest_idx is below the ring length, the offsets from oldest to newest are
\* non-decreasing, and the newest offset is at most the buffer length.
C26_SanityCheck ==
    /\ SanityCheck(ht)
    /\ ht.state = "Tail" => Len(ht.ts.lines) = ht.ts.ntail + 1

\* In Tail state the ring of two retained lines has wrapped around and holds
\* distinct line starts, the oldest not at the start of the buffer.
C26_Witness ==
    /\ ht.state = "Tail"
    /\ ht.ts.ntail = 2
    /\ ht.ts.newlines > 3
    /\ ht.ts.oldest_idx # 0
    /\ OldestLine(ht.ts) > 0
    /\ OldestLine(ht.ts) < NewestLine(ht.ts)

\* The input of the region without its head and without the lines that
\* finish_tail counts as skipped: the lines after the first
\* nhead + max(0, newlines - nhead - ntail), the line in progress included.
Kept(input, nhead, ntail) ==
    LET lines == LinesOf(input)
        skipped == Max(0, CountNl(input) - nhead - ntail)
    IN Concat(SubSeq(lines, nhead + skipped + 1, Len(lines)))

\* C27: while the writer is in Tail state no byte written after the switch
\* to Tail reaches the sink (the sink and the head snapshot together are the
\* bytes before the region and the first nhead lines, whatever flush and
\* make_room have done), and no byte of a line counted as skipped is ever
\* written: after finish_tail the sink and the buffer hold the head and what
\* the caller wrote since, after put_tail also the kept lines, nothing else.
C27_TailNotWritten ==
    LET before == reg.pre \o ExpectedHead(reg.input, reg.nhead) IN
    /\ ht.state = "Tail" => ht.out \o ht.ts.head = before
    /\ phase = "finished" => ht.out \o ht.buf = before \o reg.mid
    /\ phase = "done" =>
           ht.out \o ht.buf =
               before \o reg.mid \o Kept(reg.input, reg.nhead, reg.ntail)

\* In Tail state the head has been flushed to the sink, lines have been
\* skipped, and the buffer holds bytes written after the switch.
C27_Witness ==
    /\ ht.state = "Tail"
    /\ ht.ts.head = <<>>
    /\ ht.out # <<>>
    /\ ht.ts.newlines > ht.ts.ntail
    /\ ht.buf # <<>>

\* The bytes of the buffer from the oldest retained line start to its end.
Retained(h) == SubSeq(h.buf, OldestLine(h.ts) + 1, Len(h.buf))

\* C28: compact changes nothing observable.  In Tail state it removes only
\* bytes that precede the oldest retained line start, shifts every ring offset
\* by the number of bytes removed, and leaves the retained tail bytes, the
\* newline count, oldest_idx, ntail, the head snapshot and everything else
\* unchanged, so that finish_tail returns the same tail bytes and the same
\* skipped count with or without it; in Passthrough and Head it is a no-op.
C28_CompactFrame ==
    ~ht.panicked =>
        LET c == Compact(ht) IN
        IF ht.state # "Tail" THEN c = ht
        ELSE LET removed == Len(ht.buf) - Len(c.buf) IN
             /\ ~c.panicked
             /\ removed \in 0..OldestLine(ht.ts)
             /\ c.buf = SubSeq(ht.buf, removed + 1, Len(ht.buf))
             /\ \A i \in DOMAIN ht.ts.lines :
                    c.ts.lines[i] = ht.ts.lines[i] - removed
             /\ Retained(c) = Retained(ht)
             /\ c.ts.newlines = ht.ts.newlines
             /\ c.ts.oldest_idx = ht.ts.oldest_idx
             /\ c.ts.ntail = ht.ts.ntail
             /\ c.ts.head = ht.ts.head
             /\ [c EXCEPT !.buf = ht.buf, !.ts.lines = ht.ts.lines] = ht
             /\ TailBytes(FinishTail(c).tail) = TailBytes(FinishTail(ht).tail)
             /\ FinishTail(c).tail.skipped = FinishTail(ht).tail.skipped
             /\ FinishTail(c).ht.buf = FinishTail(ht).ht.buf

\* In Tail state bytes of skipped lines have been removed from the buffer:
\* it starts at the oldest retained line and is shorter than what was written
\* after the head.
C28_Witness ==
    /\ ht.state = "Tail"
    /\ ~ht.panicked
    /\ ht.ts.ntail > 0
    /\ ht.ts.newlines > ht.ts.ntail
    /\ OldestLine(ht.ts) = 0
    /\ NewestLine(ht.ts) > 0
    /\ Len(ht.buf) < Len(reg.input) - Len(ExpectedHead(reg.input, reg.nhead))

\* HeadTail::nl up to its call of make_room: the writer make_room is
\* called on.
NlBody(h) ==
    LET h1 == Put(h, <<NL>>) IN
    CASE h1.state = "Passthrough" -> h1
      [] h1.state = "Head" /\ h1.lines_left >= 2 ->
             [h1 EXCEPT !.lines_left = @ - 1]
      [] h1.state = "Tail" -> [h1 EXCEPT !.ts = TSNewline(@, Len(h1.buf))]
      [] OTHER -> SwitchToTailMode(h1, h1.ntail)

\* HeadTail::put_tail up to its call of make_room.
PutTailBody(h, t) ==
    LET data == TailBytes(t)
        h1 == IF Len(data) > h.bufcap - Len(h.buf) THEN Flush(h) ELSE h
    IN IF t.start = 0 /\ h1.buf = <<>>
       THEN [h1 EXCEPT !.buf = t.buf, !.bufcap = t.cap, !.aux1cap = h1.bufcap]
       ELSE [Put(h1, data) EXCEPT !.aux1cap = t.cap]

\* A step that is a call of put_tail.
IsPutTail == phase = "finished" /\ phase' = "done"

\* The memory policy as the claim states it, between the writer b it is
\* applied to and the writer a it leaves.
Policy(b, a) ==
    LET used == Len(b.buf)
        capacity == b.bufcap
    IN /\ 8 * used > 7 * capacity =>
              IF b.state # "Tail"
              THEN a = [b EXCEPT !.out = @ \o b.buf, !.buf = <<>>]
              ELSE IF 4 * Len(Retained(b)) <= capacity
                   THEN /\ a.buf = Retained(b)
                        /\ OldestLine(a.ts) = 0
                        /\ a.out = b.out
                   ELSE a = b
       /\ 8 * used < 7 * capacity => a = b

\* C29: the memory policy applied after each nl and each put_tail.  When the
\* buffer holds more than 7/8 of its capacity, in Passthrough or Head the
\* whole buffer is flushed to the sink, and in Tail the buffer is compacted
\* exactly when the retained tail (oldest retained line start to end) is at
\* most 1/4 of the capacity and is otherwise left untouched; when it holds
\* less than 7/8 nothing is flushed or compacted.
C29_MemoryPolicy ==
    [][/\ IsNl => Policy(NlBody(ht), ht')
       /\ IsPutTail => Policy(PutTailBody(ht, tail), ht')
      ]_vars

\* An nl in Tail state has filled the buffer and left it untouched, bytes
\* of a skipped line still in front of the oldest retained line: the retained
\* tail is more than 1/4 of the capacity.
C29_Witness ==
    /\ roomed
    /\ phase = "region"
    /\ ht.state = "Tail"
    /\ Len(ht.buf) = ht.bufcap
    /\ OldestLine(ht.ts) > 0
    /\ 4 * Len(Retained(ht)) > ht.bufcap

\* A step that is a call of finish_tail: it ends the region, or, before any
\* region was opened, it is the only call that changes the writer.
IsFinishTail ==
    \/ phase = "region" /\ phase' = "finished"
    \/ phase = "idle" /\ phase' = "idle" /\ ht' # ht

\* C30 as claimed: finish_tail can be called in each of the three states
\* Passthrough, Head and Tail; it returns a Tail and leaves the writer in
\* Passthrough state.
C30_Original ==
    [][IsFinishTail =>
           /\ ~ht'.panicked
           /\ tail'.held
           /\ ht'.state = "Passthrough"
      ]_vars

\* C30, amended: finish_tail can be called in Head and Tail state; it returns
\* the captured tail bytes (none in Head, the retained lines in Tail) with
\* the skipped count (0 in Head, max(0, newlines - ntail) in Tail) and leaves
\* the writer in Passthrough with the head bytes as the active buffer, the
\* sink untouched.  Called in Passthrough state it panics and returns
\* nothing.
C30_FinishTail ==
    [][IsFinishTail =>
           CASE ht.state = "Passthrough" ->
                    /\ ht'.panicked
                    /\ ~tail'.held
                    /\ ht' = [ht EXCEPT !.panicked = TRUE]
             [] ht.state = "Head" ->
                    /\ ~ht'.panicked
                    /\ ht'.state = "Passthrough"
                    /\ ht'.buf = ht.buf
                    /\ ht'.out = ht.out
                    /\ tail'.held
                    /\ TailBytes(tail') = <<>>
                    /\ tail'.skipped = 0
             [] ht.state = "Tail" ->
                    /\ ~ht'.panicked
                    /\ ht'.state = "Passthrough"
                    /\ ht'.buf = ht.ts.head
                    /\ ht'.out = ht.out
                    /\ tail'.held
                    /\ TailBytes(tail') = Retained(ht)
                    /\ tail'.skipped = Max(0, ht.ts.newlines - ht.ts.ntail)
      ]_vars

\* finish_tail has returned from Tail state: the writer is in Passthrough,
\* its buffer is the head of the region, and the Tail holds retained lines
\* behind bytes of skipped ones.
C30_Witness ==
    /\ phase = "finished"
    /\ reg.mid = <<>>
    /\ ht.state = "Passthrough"
    /\ ht.buf # <<>>
    /\ ht.buf = ExpectedHead(reg.input, reg.nhead)
    /\ tail.held
    /\ tail.start > 0
    /\ TailBytes(tail) # <<>>

\* C32 as claimed: the tail bytes returned by finish_tail begin with the
\* newline byte that precedes the first retained line.
C32_Original ==
    (phase = "finished" /\ tail.held /\ tail.skipped > 0) =>
        TailBytes(tail) = <<NL>> \o Kept(reg.input, reg.nhead, reg.ntail)

\* C32, amended: the tail bytes returned by finish_tail begin with the first
\* byte of the first retained line.  The newline that precedes that line is
\* not part of them: it is the byte in front of the returned range, when the
\* buffer still holds it.
C32_TailStart ==
    (phase = "finished" /\ tail.held) =>
        /\ TailBytes(tail) = Kept(reg.input, reg.nhead, reg.ntail)
        /\ tail.start > 0 => tail.buf[tail.start] = NL

\* finish_tail has returned a tail after skipped lines; the newline of the
\* last skipped line is still in the buffer, in front of the tail bytes,
\* which begin with a byte that is not a newline.
C32_Witness ==
    /\ phase = "finished"
    /\ tail.held
    /\ tail.skipped > 0
    /\ tail.start > 0
    /\ TailBytes(tail) # <<>>
    /\ TailBytes(tail)[1] # NL

-----------------------------------------------------------------------------
(* Properties of the renderer's frames.                                      *)

\* The text without its escape sequences: each runs from ESC to the letter m.
\* StripRange gives the bytes kept of s[lo..hi] and whether an escape sequence
\* is open after them, inEsc telling whether one is open before them.
RECURSIVE StripRange(_, _, _, _)
StripRange(s, lo, hi, inEsc) ==
    IF lo > hi THEN [out |-> <<>>, inEsc |-> inEsc]
    ELSE IF lo = hi
    THEN IF inEsc THEN [out |-> <<>>, inEsc |-> s[lo] # 109]
         ELSE IF s[lo] = 27 THEN [out |-> <<>>, inEsc |-> TRUE]
         ELSE [out |-> <<s[lo]>>, inEsc |-> FALSE]
    ELSE LET mid == (lo + hi) \div 2
             left == StripRange(s, lo, mid, inEsc)
             right == StripRange(s, mid + 1, hi, left.inEsc)
         IN [out |-> left.out \o right.out, inEsc |-> right.inEsc]

Strip(s) == StripRange(s, 1, Len(s), FALSE).out

\* The frame has been closed by a footer of an abbreviating renderer.
FrameClosed == phase = "done" /\ rd.abbreviate >= 0 /\ ~ht.panicked

\* The number of lines of the frame's body that are neither head nor tail.
FrameSkipped == Max(0, CountNl(reg.input) - 2 * rd.abbreviate)

\* C4: with abbreviation enabled, the sink holds for a closed frame, after what
\* it held up to the header line: the first `brief` lines of the body, then
\* one "(skipped N lines)" separator exactly when N > 0 lines were skipped,
\* then the last `brief` lines of the body, then the footer line.
C4_FrameLayout ==
    FrameClosed =>
        /\ ht.buf = <<>>
        /\ Strip(ht.out) =
               Strip(reg.pre \o ExpectedHead(reg.input, rd.abbreviate))
               \o (IF FrameSkipped > 0
                   THEN SkippedLine(FrameSkipped) \o <<NL>>
                   ELSE <<>>)
               \o Strip(ExpectedTail(reg.input, rd.abbreviate, rd.abbreviate))
               \o GlyphEnd \o rd.foot \o <<NL>>

C4_Witness ==
    /\ FrameClosed
    /\ rd.abbreviate > 0
    /\ FrameSkipped > 0
    /\ rd.colors = "vt100"
    /\ \E i \in DOMAIN reg.input : reg.input[i] = 97
-----------------------------------------------------------------------------
(* mapi/analyzer.rs: the MAPI framing analyzer.  Its states are Prologue,    *)
(* Header0, Header1 (holding the low byte of the header), Body (holding the  *)
(* payload bytes still to come and whether the block is the last of its      *)
(* message) and Error.  `was` is the classification of the chunk returned    *)
(* last, block_boundary and message_boundary what was met at its end.        *)

\* Analyzer::new
ANew(unix_client) ==
    [st |-> IF unix_client THEN "Prologue" ELSE "Header0",
     lo |-> 0, remaining |-> 0, last |-> FALSE,
     was |-> "None", block_boundary |-> FALSE, message_boundary |-> FALSE]

\* A transition table that meets no boundary at a block without payload.
AStepNoEmpty(an, b) ==
    LET to(st, lo, remaining, last, was, bb, mb) ==
            [st |-> st, lo |-> lo, remaining |-> remaining, last |-> last,
             was |-> was, block_boundary |-> bb, message_boundary |-> mb]
    IN CASE an.st = "Error" ->
               to("Error", 0, 0, FALSE, "Error", FALSE, FALSE)
         [] an.st = "Prologue" ->
               to("Header0", 0, 0, FALSE, "Head", FALSE, FALSE)
         [] an.st = "Header0" ->
               to("Header1", b, 0, FALSE, "Head", FALSE, FALSE)
         [] an.st = "Header1" ->
               IF (b * 256 + an.lo) \div 2 = 0
               THEN to("Header0", 0, 0, FALSE, "Head", FALSE, FALSE)
               ELSE to("Body", 0, (b * 256 + an.lo) \div 2, (an.lo % 2) = 1,
                       "Head", FALSE, FALSE)
         [] an.st = "Body" ->
               IF an.remaining = 1
               THEN to("Header0", 0, 0, FALSE, "Body", TRUE, an.last)
               ELSE to("Body", 0, an.remaining - 1, an.last, "Body", FALSE, FALSE)

\* The transition table: the state after byte b, with the classification of b
\* and the boundaries met after it.
AStep(an, b) ==
    LET to(st, lo, remaining, last, was, bb, mb) ==
            [st |-> st, lo |-> lo, remaining |-> remaining, last |-> last,
             was |-> was, block_boundary |-> bb, message_boundary |-> mb]
    IN CASE an.st = "Error" ->
               to("Error", 0, 0, FALSE, "Error", FALSE, FALSE)
         [] an.st = "Prologue" ->
               to("Header0", 0, 0, FALSE, "Head", FALSE, FALSE)
         [] an.st = "Header0" ->
               to("Header1", b, 0, FALSE, "Head", FALSE, FALSE)
         [] an.st = "Header1" ->
               LET h == b * 256 + an.lo
                   len == h \div 2
                   is_last == (an.lo % 2) = 1
               IN IF len = 0
                  THEN to("Header0", 0, 0, FALSE, "Head", ~is_last, is_last)
                  ELSE to("Body", 0, len, is_last, "Head", FALSE, FALSE)
         [] an.st = "Body" ->
               IF an.remaining = 1
               THEN to("Header0", 0, 0, FALSE, "Body", TRUE, an.last)
               ELSE to("Body", 0, an.remaining - 1, an.last, "Body", FALSE, FALSE)

\* The classification of the byte the analyzer takes next.
NextClass(an) ==
    IF an.st = "Error" THEN "Error" ELSE IF an.st = "Body" THEN "Body" ELSE "Head"

\* The analyzer after the bytes of data.
RECURSIVE AFeed(_, _)
AFeed(an, data) ==
    IF data = <<>> THEN an ELSE AFeed(AStep(an, Head(data)), Tail(data))

\* The length of the chunk split_chunk takes from data (not empty): the
\* longest prefix of one classification that ends no later than the first
\* boundary.  k bytes are taken already and an is the analyzer after them.
RECURSIVE ChunkLen(_, _, _)
ChunkLen(an, data, k) ==
    IF \/ k = Len(data)
       \/ an.block_boundary \/ an.message_boundary
       \/ NextClass(an) # an.was
    THEN k
    ELSE ChunkLen(AStep(an, data[k + 1]), data, k + 1)

\* Analyzer::split_chunk on a slice that is not empty (it returns None on an
\* empty one): the analyzer after the call, the chunk, the rest of the slice.
SplitChunk(an, data) ==
    LET k == ChunkLen(AStep(an, data[1]), data, 1)
    IN [an |-> AFeed(an, SubSeq(data, 1, k)),
        chunk |-> SubSeq(data, 1, k),
        rest |-> SubSeq(data, k + 1, Len(data))]

\* Analyzer::was_head, was_body, was_error, was_block_boundary,
\* was_message_boundary
WasHead(an) == an.was = "Head"
WasBody(an) == an.was = "Body"
WasError(an) == an.was = "Error"
WasBlockBoundary(an) == an.block_boundary
WasMessageBoundary(an) == an.message_boundary

\* Analyzer::check_incomplete: in the middle of a header or of a body it fails
\* and the analyzer enters Error.
CheckIncompleteAn(an) ==
    IF an.st = "Header1" \/ (an.st = "Body" /\ an.remaining > 0)
    THEN [ok |-> FALSE, situation |-> an.st,
          an |-> [an EXCEPT !.st = "Error", !.block_boundary = FALSE,
                            !.message_boundary = FALSE]]
    ELSE [ok |-> TRUE, situation |-> "none", an |-> an]
-----------------------------------------------------------------------------
(* mapi/mod.rs: the Accumulator of one direction of one connection.  Its     *)
(* operations work on w = [acc, calls, seen]: the accumulator, the calls     *)
(* made on the renderer, and the history of the analyzer.                    *)

Levels == {"Raw", "Blocks", "Messages"}

\* Accumulator::new
AccNew(level, unix_client) ==
    [level |-> level, analyzer |-> ANew(unix_client), buf |-> <<>>,
     error_reported |-> FALSE]

\* History: a loop over split_chunk starts on the slice data.
StartLoop(sn, data) ==
    [sn EXCEPT !.loops = Append(@, [slice |-> data, chunks |-> <<>>,
                                    done |-> FALSE])]

\* History: split_chunk returned None, the loop ends.
EndLoop(sn) ==
    [sn EXCEPT !.loops[Len(sn.loops)].done = TRUE]

\* History: split_chunk took s.chunk from the slice data, which ends at
\* offset sn.end of the stream.
Observe(sn, data, s) ==
    LET from == sn.end - Len(data)
        to == from + Len(s.chunk)
    IN [sn EXCEPT
           !.loops[Len(sn.loops)].chunks = Append(@, s.chunk),
           !.cls = @ \cup {<<i, s.an.was>> : i \in from..(to - 1)},
           !.marks = IF s.an.block_boundary \/ s.an.message_boundary
                     THEN Append(@, [at |-> to,
                                     block |-> s.an.block_boundary,
                                     message |-> s.an.message_boundary])
                     ELSE @]

\* A call on the renderer: a frame (header, body, footer) or a message.
Call(op, kind, data, error_at) ==
    [op |-> op, kind |-> kind, data |-> data, error_at |-> error_at]

\* The loop of handle_raw were it to stop after its first chunk.
RawLoopOnce(w, data, n, error_at, shown) ==
    IF data = <<>>
    THEN [w |-> [w EXCEPT !.seen = EndLoop(@)], n |-> n, error_at |-> error_at,
          shown |-> shown]
    ELSE LET s == SplitChunk(w.acc.analyzer, data)
             w1 == [w EXCEPT !.acc.analyzer = s.an,
                             !.seen = EndLoop(Observe(@, data, s))]
         IN [w |-> w1, n |-> n + Len(s.chunk), error_at |-> error_at,
             shown |-> [i \in 1..Len(s.chunk) |-> <<s.chunk[i], "Normal">>]]

\* The while loop of Accumulator::handle_raw: n bytes are shown already,
\* error_at is -1 for None, shown pairs each byte with its style.
RECURSIVE RawLoop(_, _, _, _, _)
RawLoop(w, data, n, error_at, shown) ==
    IF data = <<>>
    THEN [w |-> [w EXCEPT !.seen = EndLoop(@)], n |-> n, error_at |-> error_at,
          shown |-> shown]
    ELSE LET s == SplitChunk(w.acc.analyzer, data)
             first == ~WasHead(s.an) /\ WasError(s.an) /\ ~w.acc.error_reported
             style == IF WasHead(s.an) THEN "Header"
                      ELSE IF WasError(s.an) THEN "Error"
                      ELSE "Normal"
             w1 == [w EXCEPT !.acc.analyzer = s.an,
                             !.acc.error_reported = @ \/ first,
                             !.seen = Observe(@, data, s)]
         IN RawLoop(w1, s.rest, n + Len(s.chunk),
                    IF first THEN n ELSE error_at,
                    shown \o [i \in 1..Len(s.chunk) |-> <<s.chunk[i], style>>])

\* Accumulator::handle_raw
HandleRaw(w, data) ==
    LET r == RawLoop([w EXCEPT !.seen = StartLoop(@, data)], data, 0, -1, <<>>)
    IN [r.w EXCEPT !.calls = Append(@, Call("frame", "raw", r.shown, r.error_at))]

\* Accumulator::dump_frame (data is the chunk, or buf when it is not empty)
DumpFrame(w, data) ==
    [w EXCEPT !.calls =
        Append(@, Call("frame",
                       IF w.acc.level = "Messages" THEN "message" ELSE "block",
                       data, -1))]

\* An error path of handle_frame that keeps the level and dumps the slice as
\* one more frame.
FrameErrorAsFrame(w1, whole) ==
    DumpFrame([w1 EXCEPT
                  !.calls = Append(@, Call("message", "mapi protocol error",
                                           <<>>, -1)),
                  !.acc.error_reported = TRUE],
              whole)

\* An error path of handle_frame that does not set error_reported.
FrameErrorUnreported(w1, whole) ==
    HandleRaw([w1 EXCEPT
                  !.calls = Append(@, Call("message", "mapi protocol error",
                                           <<>>, -1)),
                  !.acc.buf = <<>>,
                  !.acc.level = "Raw"],
              whole)

\* Accumulator::handle_frame when the chunk was an error: what is buffered is
\* dumped as an incomplete frame, the error is reported, the level becomes
\* Raw and the whole slice is rendered by handle_raw.
FrameError(w1, whole) ==
    LET w2 == IF w1.acc.buf # <<>>
              THEN [w1 EXCEPT
                       !.calls = Append(@, Call("frame",
                           IF w1.acc.level = "Messages"
                           THEN "incomplete message before error"
                           ELSE "incomplete block before error",
                           w1.acc.buf, -1)),
                       !.acc.buf = <<>>,
                       !.acc.level = "Raw"]
              ELSE w1
        w3 == [w2 EXCEPT
                  !.calls = Append(@, Call("message",
                                           "mapi protocol error", <<>>, -1)),
                  !.acc.error_reported = TRUE,
                  !.acc.level = "Raw"]
    IN HandleRaw(w3, whole)

\* The loop of Accumulator::handle_frame
RECURSIVE FrameLoop(_, _)
FrameLoop(w, data) ==
    IF data = <<>> THEN [w EXCEPT !.seen = EndLoop(@)]
    ELSE
    LET whole == data
        s == SplitChunk(w.acc.analyzer, data)
        w1 == [w EXCEPT !.acc.analyzer = s.an, !.seen = Observe(@, data, s)]
    IN IF WasError(s.an)
       THEN FrameError(w1, whole)
       ELSE IF ~WasBody(s.an) THEN FrameLoop(w1, s.rest)
       ELSE LET at_end == IF w1.acc.level = "Blocks"
                          THEN WasBlockBoundary(s.an)
                          ELSE WasMessageBoundary(s.an)
            IN IF ~at_end
               THEN FrameLoop([w1 EXCEPT !.acc.buf = @ \o s.chunk,
                                         !.seen.writes = @ + 1], s.rest)
               ELSE LET w2 == IF w1.acc.buf = <<>>
                              THEN DumpFrame(w1, s.chunk)
                              ELSE DumpFrame([w1 EXCEPT !.acc.buf = @ \o s.chunk,
                                                        !.seen.writes = @ + 1],
                                             w1.acc.buf \o s.chunk)
                    IN FrameLoop([w2 EXCEPT !.acc.buf = <<>>], s.rest)

\* Accumulator::handle_frame
HandleFrame(w, data) == FrameLoop([w EXCEPT !.seen = StartLoop(@, data)], data)

\* Accumulator::handle_data, on an accumulator whose analyzer starts afresh
\* with every slice.
HandleDataFresh(w, data) ==
    LET w0 == [w EXCEPT !.acc.analyzer = ANew(FALSE)] IN
    IF w0.acc.level = "Raw" THEN HandleRaw(w0, data) ELSE HandleFrame(w0, data)

\* Accumulator::handle_data
HandleData(w, data) ==
    IF w.acc.level = "Raw" THEN HandleRaw(w, data) ELSE HandleFrame(w, data)

\* Accumulator::check_incomplete with State::check_incomplete, which renders
\* the error as a message.
CheckIncomplete(w) ==
    LET r == CheckIncompleteAn(w.acc.analyzer) IN
    IF r.ok THEN w
    ELSE [w EXCEPT !.acc.analyzer = r.an,
                   !.calls = Append(@, Call("message", r.situation, <<>>, -1))]
-----------------------------------------------------------------------------
(* The sender of a stream and mapi::State::handle: the sender frames its     *)
(* messages in blocks (a Unix client sends its marker byte first), the proxy *)
(* cuts the stream into Data events wherever it likes, and a ShutdownRead    *)
(* event tells that the sender stopped.                                      *)

\* The payload lengths of the blocks the sender makes.
BlockLens == {0, 1}

\* The marker byte of a Unix client.
Marker == 48

\* The bytes the sender can send next.  A header is the little-endian u16
\* 2 * len + is_last; the payload bytes are a, b, c, ... in the order sent.
PeerBytes(ps) ==
    CASE ps.at = "marker" -> {Marker}
      [] ps.at = "lo" -> {2 * len + last : len \in BlockLens, last \in {0, 1}}
      [] ps.at = "hi" -> {0}
      [] ps.at = "payload" -> {97 + ps.payload}

\* The sender after it has sent b.
PeerStep(ps, b) ==
    LET p == [ps EXCEPT !.sent = Append(@, b)] IN
    CASE ps.at = "marker" -> [p EXCEPT !.at = "lo"]
      [] ps.at = "lo" -> [p EXCEPT !.at = "hi", !.need = b \div 2]
      [] ps.at = "hi" -> [p EXCEPT !.at = IF ps.need = 0 THEN "lo" ELSE "payload"]
      [] ps.at = "payload" ->
            [p EXCEPT !.need = @ - 1, !.payload = @ + 1,
                      !.at = IF ps.need = 1 THEN "lo" ELSE "payload"]

\* The senders after each way of sending n more bytes.
RECURSIVE Continuations(_, _)
Continuations(ps, n) ==
    IF n = 0 THEN {ps}
    ELSE UNION {Continuations(PeerStep(ps, b), n - 1) : b \in PeerBytes(ps)}

NoWriter ==
    /\ ht = HTNew(Cap)
    /\ tail = NoTail
    /\ phase = "idle"
    /\ reg = NoRegion
    /\ roomed = TRUE
    /\ rd = NoRenderer

\* MapiEvent::Incoming: add_connection makes the accumulator (one direction
\* of it is followed).
InitMapi ==
    /\ NoWriter
    /\ NoProxy
    /\ NoChan
    /\ NoRest
    /\ \E level \in Levels, unix_client \in BOOLEAN :
           /\ acc = AccNew(level, unix_client)
           /\ peer = [sent |-> <<>>, at |-> IF unix_client THEN "marker" ELSE "lo",
                      need |-> 0, payload |-> 0, events |-> 0, eof |-> FALSE,
                      unix |-> unix_client, eof_at |-> -1]
    /\ calls = <<>>
    /\ seen = [loops |-> <<>>, cls |-> {}, marks |-> <<>>, end |-> 0,
              start |-> 0, before |-> <<>>, was_level |-> "Raw", writes |-> 0]

\* MapiEvent::Data carrying the next n bytes of the stream
MapiData(n) ==
    /\ peer.events < MaxEvents
    /\ Len(peer.sent) + n <= MaxStream
    /\ \E ps \in Continuations(peer, n) :
           LET data == SubSeq(ps.sent, Len(peer.sent) + 1, Len(ps.sent))
               w == HandleData([acc |-> acc, calls |-> calls,
                                seen |-> [seen EXCEPT !.loops = <<>>,
                                                      !.end = Len(ps.sent),
                                                      !.start = Len(peer.sent),
                                                      !.before = acc.buf,
                                                      !.was_level = acc.level,
                                                      !.writes = 0]],
                               data)
           IN /\ acc' = w.acc
              /\ calls' = w.calls
              /\ seen' = w.seen
              /\ peer' = [ps EXCEPT !.events = @ + 1]
    /\ UNCHANGED <<writerVars, proxyVars, chanVars, restVars>>

\* MapiEvent::ShutdownRead: check_incomplete, then the message that the
\* sender stopped sending
MapiShutdownRead ==
    /\ ~peer.eof
    /\ LET w == CheckIncomplete([acc |-> acc, calls |-> calls, seen |-> seen])
       IN /\ acc' = w.acc
          /\ calls' = Append(w.calls, Call("message", "stopped sending", <<>>, -1))
    /\ peer' = [peer EXCEPT !.eof = TRUE, !.eof_at = Len(peer.sent)]
    /\ UNCHANGED <<seen, writerVars, proxyVars, chanVars, restVars>>

NextMapi ==
    \/ \E n \in 1..MaxStream : MapiData(n)
    \/ MapiShutdownRead

SpecMapi == InitMapi /\ [][NextMapi]_vars
-----------------------------------------------------------------------------
(* Properties of the analyzer and of the accumulator.                        *)

RECURSIVE OneByOne(_, _, _, _, _)
OneByOne(an, s, i, eof_at, out) ==
    LET a0 == IF i = eof_at THEN CheckIncompleteAn(an).an ELSE an IN
    IF i >= Len(s) THEN out
    ELSE LET a1 == AStep(a0, s[i + 1])
         IN OneByOne(a1, s, i + 1, eof_at,
                [cls |-> out.cls \cup {<<i, a1.was>>},
                 marks |-> IF a1.block_boundary \/ a1.message_boundary
                           THEN Append(out.marks,
                                       [at |-> i + 1,
                                        block |-> a1.block_boundary,
                                        message |-> a1.message_boundary])
                           ELSE out.marks])

RECURSIVE BlocksOf(_, _)
BlocksOf(s, i) ==
    IF i + 1 > Len(s) THEN <<>>
    ELSE LET h == s[i] + 256 * s[i + 1]
             len == h \div 2
         IN IF i + 1 + len > Len(s) THEN <<>>
            ELSE <<[last |-> (h % 2) = 1,
                    payload |-> SubSeq(s, i + 2, i + 1 + len),
                    end |-> i + 1 + len]>> \o BlocksOf(s, i + 2 + len)

\* The stream after the marker byte of a Unix client.
Skip == IF peer.unix THEN 1 ELSE 0
FramedBlocks == BlocksOf(peer.sent, Skip + 1)

\* The stream is well formed: complete messages, all of them delivered to an
\* accumulator that was told of no end in the middle of one.
WellFormed ==
    /\ FramedBlocks # <<>>
    /\ FramedBlocks[Len(FramedBlocks)].end = Len(peer.sent)
    /\ FramedBlocks[Len(FramedBlocks)].last
    /\ acc.analyzer.st # "Error"

\* The offsets at which the messages of the stream end.
MessageEnds ==
    LET ends == {FramedBlocks[j].end : j \in {k \in DOMAIN FramedBlocks : FramedBlocks[k].last}}
    IN ends

\* C7: for a well-formed stream of k messages the analyzer reports k message
\* boundaries, at the offsets where the messages end, one after the other.
C7_MessageBoundaries ==
    WellFormed =>
        LET at == SelectSeq(seen.marks, LAMBDA m : m.message) IN
        /\ Len(at) = Cardinality(MessageEnds)
        /\ {at[j].at : j \in DOMAIN at} = MessageEnds
        /\ \A j, k \in DOMAIN at : j < k => at[j].at < at[k].at

\* Two messages or more, one ended by a block without payload, one of
\* several blocks.
C7_Witness ==
    /\ WellFormed
    /\ Cardinality(MessageEnds) >= 2
    /\ \E j \in DOMAIN FramedBlocks :
           FramedBlocks[j].last /\ FramedBlocks[j].payload = <<>>
    /\ \E j \in DOMAIN FramedBlocks : ~FramedBlocks[j].last
    /\ peer.events = 2

\* The payloads of the messages of the blocks bs: those of the blocks of each
\* message, one after the other; cur is the payload of the message under way.
RECURSIVE MessagePayloads(_, _)
MessagePayloads(bs, cur) ==
    IF bs = <<>> THEN <<>>
    ELSE IF Head(bs).last
    THEN <<cur \o Head(bs).payload>> \o MessagePayloads(Tail(bs), <<>>)
    ELSE MessagePayloads(Tail(bs), cur \o Head(bs).payload)

\* The payloads of the frames the accumulator has rendered.
FramePayloads ==
    LET fs == SelectSeq(calls, LAMBDA c : c.op = "frame") IN
    [j \in DOMAIN fs |-> fs[j].data]

\* C8: for a well-formed stream, at level Messages the frames rendered are the
\* messages, one frame each, in order, with the payloads of its blocks; at
\* level Blocks they are the blocks, one frame each, with its payload.
C8_OneFramePerMessage ==
    WellFormed =>
        /\ acc.level = "Messages" =>
               FramePayloads = MessagePayloads(FramedBlocks, <<>>)
        /\ acc.level = "Blocks" =>
               FramePayloads = [j \in DOMAIN FramedBlocks |-> FramedBlocks[j].payload]

\* The part of C8 that tells that no frame holds payload of two messages: every
\* frame rendered at level Messages is the payload of one message.
C8_NoMixedFrame ==
    (WellFormed /\ acc.level = "Messages") =>
        \A j \in DOMAIN FramePayloads :
            \E k \in DOMAIN MessagePayloads(FramedBlocks, <<>>) :
                FramePayloads[j] = MessagePayloads(FramedBlocks, <<>>)[k]

\* The offsets of the stream at which a frame of the level ends: the ends of
\* the blocks, or of the messages, and the start of the first block.
FrameEnds(level) ==
    {Skip} \cup (IF level = "Blocks"
                 THEN {FramedBlocks[j].end : j \in DOMAIN FramedBlocks}
                 ELSE MessageEnds)

\* The last Data event was handled by handle_frame without an error, started
\* with an empty pending buffer and carried whole blocks (level Blocks) or
\* whole messages (level Messages) only.
WholeFrames ==
    /\ peer.events > 0
    /\ seen.was_level \in {"Blocks", "Messages"}
    /\ acc.level = seen.was_level
    /\ seen.before = <<>>
    /\ seen.start \in FrameEnds(acc.level) \cup {0}
    /\ seen.end \in FrameEnds(acc.level)
    /\ seen.end > Skip

\* C40: after handle_frame has processed a Data event of whole blocks or
\* whole messages that started with an empty pending buffer, the buffer is
\* empty and was not written to during the event.
C40_NeverWritten == WholeFrames => (seen.writes = 0 /\ acc.buf = <<>>)

\* The part of C40 that holds: at level Blocks such an event leaves the
\* buffer unwritten and empty.
C40_Blocks == (WholeFrames /\ acc.level = "Blocks") => (seen.writes = 0 /\ acc.buf = <<>>)

\* The part of C40 about what is left: at level Messages such an event leaves
\* the buffer empty.
C40_EmptyAfter == WholeFrames => acc.buf = <<>>

\* At level Blocks an event of two whole blocks with payload.
C40_BlocksCase ==
    /\ WholeFrames
    /\ acc.level = "Blocks"
    /\ Len(SelectSeq(calls, LAMBDA c : c.op = "frame")) >= 2
    /\ peer.events = 1
-----------------------------------------------------------------------------
(* The proxy engine's forwarding of one connection (proxy/): each direction  *)
(* reads from its sender's socket into a bounded copy buffer and writes from *)
(* the buffer to its receiver's socket.                                      *)

Directions == {"Upstream", "Downstream"}

\* The bytes the sender of direction d has to send: all different.
Outgoing(d) ==
    [i \in 1..MaxSend |-> (IF d = "Upstream" THEN 100 ELSE 200) + i]

\* io::Read for MioStream: a read that returns n takes the next n bytes of
\* what the socket holds.
SockRead(avail, n) == SubSeq(avail, 1, n)

\* A write that sends the last n bytes of buf instead of the first.
SockWriteTail(buf, n) == SubSeq(buf, Len(buf) - n + 1, Len(buf))

\* io::Write for MioStream: a write that returns n has sent the first n bytes
\* of buf.
SockWrite(buf, n) == SubSeq(buf, 1, n)

InitProxy ==
    /\ NoWriter
    /\ NoMapi
    /\ NoChan
    /\ NoRest
    /\ link = [state |-> "Connecting", event |-> "Incoming"]
    /\ fwd = [d \in Directions |->
                 [todo |-> Outgoing(d), read |-> <<>>, buf |-> <<>>,
                  written |-> <<>>, eof |-> FALSE, discard |-> -1]]

Open == link.state \in {"Established", "HalfClosed"}

\* Connecting -> Established: the outbound socket is writable; Connected
ProxyConnected ==
    /\ link.state = "Connecting"
    /\ link' = [state |-> "Established", event |-> "Connected"]
    /\ UNCHANGED <<fwd, writerVars, mapiVars, chanVars, restVars>>

\* Connecting -> Closed: no forward candidate is left; ConnectFailed, Aborted
ProxyConnectFailed ==
    /\ link.state = "Connecting"
    /\ link' = [state |-> "Closed", event |-> "Aborted"]
    /\ UNCHANGED <<fwd, writerVars, mapiVars, chanVars, restVars>>

\* The sender's socket is readable: read n bytes into the free portion of the
\* copy buffer; Data
ProxyRead(d, n) ==
    /\ Open
    /\ ~fwd[d].eof
    /\ n <= CopyBuf - Len(fwd[d].buf)
    /\ n <= Len(fwd[d].todo)
    /\ LET got == SockRead(fwd[d].todo, n) IN
       fwd' = [fwd EXCEPT ![d].todo = SubSeq(@, n + 1, Len(@)),
                          ![d].read = @ \o got,
                          ![d].buf = @ \o got]
    /\ UNCHANGED <<link, writerVars, mapiVars, chanVars, restVars>>

\* The receiver's socket is writable: write n bytes from the occupied portion
ProxyWrite(d, n) ==
    /\ Open
    /\ n <= Len(fwd[d].buf)
    /\ fwd' = [fwd EXCEPT ![d].written = @ \o SockWrite(fwd[d].buf, n),
                          ![d].buf = SubSeq(@, n + 1, Len(@))]
    /\ UNCHANGED <<link, writerVars, mapiVars, chanVars, restVars>>

\* The sender signalled EOF: shut the write half of the receiver's socket;
\* ShutdownRead, and ShutdownWrite with discard = the bytes still queued, which
\* will never be sent.  When the other direction has ended too: Closed, End.
ProxyEof(d) ==
    /\ Open
    /\ ~fwd[d].eof
    /\ fwd' = [fwd EXCEPT ![d].eof = TRUE,
                          ![d].discard = Len(fwd[d].buf),
                          ![d].buf = <<>>]
    /\ link' = IF link.state = "Established"
               THEN [state |-> "HalfClosed", event |-> "ShutdownWrite"]
               ELSE [state |-> "Closed", event |-> "End"]
    /\ UNCHANGED <<writerVars, mapiVars, chanVars, restVars>>

\* A hard error on one of the sockets: Aborted, both halves are closed.
ProxyAbort ==
    /\ Open
    /\ link' = [state |-> "Closed", event |-> "Aborted"]
    /\ UNCHANGED <<fwd, writerVars, mapiVars, chanVars, restVars>>

NextProxy ==
    \/ ProxyConnected
    \/ ProxyConnectFailed
    \/ \E d \in Directions, n \in 1..CopyBuf : ProxyRead(d, n)
    \/ \E d \in Directions, n \in 1..CopyBuf : ProxyWrite(d, n)
    \/ \E d \in Directions : ProxyEof(d)
    \/ ProxyAbort

SpecProxy == InitProxy /\ [][NextProxy]_vars

-----------------------------------------------------------------------------
(* Properties of the forwarding.                                             *)

IsPrefix(a, b) == Len(a) <= Len(b) /\ a = SubSeq(b, 1, Len(a))

\* The discard count of direction d's ShutdownWrite, 0 when there was none.
Reported(d) == IF fwd[d].discard = -1 THEN 0 ELSE fwd[d].discard

-----------------------------------------------------------------------------
(* main.rs, run_proxy: the reactor thread runs the proxy, whose handler      *)
(* sends every event into a bounded channel; the main thread receives the    *)
(* events and hands them to mapi::State::handle.                             *)

ConnectionIds == {1, 2}

\* The next event of connection id: events carry their connection and their
\* rank among its events.
NextEvent(id) ==
    [id |-> id,
     n |-> Cardinality({i \in DOMAIN emitted : emitted[i].id = id}) + 1]

\* A channel that hands out the event sent last.
ChanRecvLast(q) == [event |-> q[Len(q)], rest |-> SubSeq(q, 1, Len(q) - 1)]

\* SyncSender::try_send in the place of send: a full channel is an error.
SendOutcomeTry(q, receiver_alive) ==
    IF ~receiver_alive \/ Len(q) >= ChanCap THEN "Err" ELSE "Ok"

\* SyncSender::send on the channel of sync_channel(ChanCap): it fails when the
\* receiver is gone, it blocks while the channel is full, else it succeeds.
SendOutcome(q, receiver_alive) ==
    IF ~receiver_alive THEN "Err"
    ELSE IF Len(q) >= ChanCap THEN "Block"
    ELSE "Ok"

\* SyncSender::send on a channel that has room: the event joins the queue.
ChanSend(q, event) == Append(q, event)

\* Receiver::recv on a channel that is not empty: the event sent first.
ChanRecv(q) == [event |-> Head(q), rest |-> Tail(q)]

\* sync_channel(500), Proxy::new, thread::spawn
InitChan ==
    /\ NoWriter
    /\ NoMapi
    /\ NoProxy
    /\ NoRest
    /\ queue = <<>>
    /\ emitted = <<>>
    /\ handled = <<>>
    /\ threads = [reactor |-> "running", consumer |-> "running",
                  pending |-> <<>>, failed |-> 0]

\* The handler's send has ended with outcome o for event: sent, the event is
\* in the channel; failed, the handler drops the error (let _ = ...) and the
\* event with it.  Either way the handler returns and the reactor goes on.
SendEnds(o, event) ==
    /\ emitted' = Append(emitted, event)
    /\ queue' = IF o = "Ok" THEN ChanSend(queue, event) ELSE queue
    /\ threads' = [threads EXCEPT !.reactor = "running", !.pending = <<>>,
                                  !.failed = IF o = "Err" THEN @ + 1 ELSE @]

\* The reactor emits an event of connection id: the handler sends it.  send
\* blocks while the channel is full: the reactor thread waits in the handler
\* with the event.
ReactorEmit(id) ==
    /\ threads.reactor = "running"
    /\ Len(emitted) < MaxEmit
    /\ LET o == SendOutcome(queue, threads.consumer = "running") IN
       IF o = "Block"
       THEN /\ threads' = [threads EXCEPT !.reactor = "blocked",
                                          !.pending = <<NextEvent(id)>>]
            /\ UNCHANGED <<queue, emitted>>
       ELSE SendEnds(o, NextEvent(id))
    /\ UNCHANGED <<handled, writerVars, mapiVars, proxyVars, restVars>>

\* The blocked send wakes up: the channel has room, or the receiver is gone.
ReactorSendReturns ==
    /\ threads.reactor = "blocked"
    /\ LET o == SendOutcome(queue, threads.consumer = "running") IN
       /\ o # "Block"
       /\ SendEnds(o, threads.pending[1])
    /\ UNCHANGED <<handled, writerVars, mapiVars, proxyVars, restVars>>

\* proxy.run() returns and the thread ends: the sender is dropped.
ReactorEnd ==
    /\ threads.reactor = "running"
    /\ threads' = [threads EXCEPT !.reactor = "ended"]
    /\ UNCHANGED <<queue, emitted, handled, writerVars, mapiVars, proxyVars, restVars>>

\* The consumer's loop: recv returns an event and mapi_state.handle handles
\* it; when handle fails (ok is false) run_proxy returns the error and the
\* receiver is dropped with what the channel holds.
ConsumerHandle(ok) ==
    /\ threads.consumer = "running"
    /\ queue # <<>>
    /\ LET r == ChanRecv(queue) IN
       IF ok
       THEN /\ handled' = Append(handled, r.event)
            /\ queue' = r.rest
            /\ UNCHANGED threads
       ELSE /\ queue' = <<>>
            /\ threads' = [threads EXCEPT !.consumer = "failed"]
            /\ UNCHANGED handled
    /\ UNCHANGED <<emitted, writerVars, mapiVars, proxyVars, restVars>>

\* recv fails (the channel is empty and the sender dropped): the loop ends.
ConsumerEnd ==
    /\ threads.consumer = "running"
    /\ threads.reactor = "ended"
    /\ queue = <<>>
    /\ threads' = [threads EXCEPT !.consumer = "ended"]
    /\ UNCHANGED <<queue, emitted, handled, writerVars, mapiVars, proxyVars, restVars>>

NextChan ==
    \/ \E id \in ConnectionIds : ReactorEmit(id)
    \/ ReactorSendReturns
    \/ ReactorEnd
    \/ \E ok \in BOOLEAN : ConsumerHandle(ok)
    \/ ConsumerEnd

SpecChan == InitChan /\ [][NextChan]_vars

-----------------------------------------------------------------------------
(* Properties of the event channel.                                          *)

\* The events of connection id in the sequence q, in order.
Of(q, id) == SelectSeq(q, LAMBDA e : e.id = id)

\* C10: the consumer handles the events of every connection in the order the
\* reactor emitted them; while it runs none is lost and none is handled twice:
\* the events handled, followed by those in the channel, are the events
\* emitted; after it has stopped the events handled are still the first ones
\* emitted.
C10_EmissionOrder ==
    /\ \A id \in ConnectionIds : IsPrefix(Of(handled, id), Of(emitted, id))
    /\ IsPrefix(handled, emitted)
    /\ threads.consumer = "running" => handled \o queue = emitted
    /\ threads.consumer = "ended" => handled = emitted

\* The consumer has handled events of both connections, interleaved, after the
\* reactor had filled the channel.
C10_Witness ==
    /\ threads.consumer = "running"
    /\ Len(queue) = ChanCap
    /\ Len(handled) >= 3
    /\ \A id \in ConnectionIds : Len(Of(handled, id)) >= 1
    /\ handled[1].id # handled[2].id

\* The events the handler was called with: those whose send has ended and the
\* one a blocked send holds.
Given == emitted \o threads.pending

-----------------------------------------------------------------------------
(* main.rs, install_ctrl_c_handler: the handler runs on every Ctrl-C, while  *)
(* the reactor and the consumer run.  proc.exit is the exit status of the    *)
(* process, -1 while it runs; exit_by tells who ended it.                    *)

\* A handler that forgets that it was triggered.
CtrlCHandlerForgets(p) ==
    IF p.triggered
    THEN [p EXCEPT !.exit = 1, !.exit_by = "handler"]
    ELSE [p EXCEPT !.trigger_calls = @ + 1]

\* The closure of install_ctrl_c_handler: if triggered { exit(1) };
\* triggered = true; trigger()
CtrlCHandler(p) ==
    IF p.triggered
    THEN [p EXCEPT !.exit = 1, !.exit_by = "handler"]
    ELSE [p EXCEPT !.triggered = TRUE, !.trigger_calls = @ + 1]

Running == proc.exit = -1

\* Ctrl-C: the ctrlc crate's thread runs the handler.
CtrlC ==
    /\ Running
    /\ proc.invocations < MaxSignals
    /\ proc' = [CtrlCHandler(proc) EXCEPT !.invocations = @ + 1]
    /\ UNCHANGED <<writerVars, mapiVars, proxyVars, chanVars,
                   mapi_state, dial, pcap, addr, abbr>>

\* run_proxy has returned (the receive loop ended, or handle failed): mymain
\* returns and the process ends with status 0, or 1 after an error.
MainReturns ==
    /\ Running
    /\ threads.consumer \in {"ended", "failed"}
    /\ proc' = [proc EXCEPT !.exit = IF threads.consumer = "ended" THEN 0 ELSE 1,
                            !.exit_by = "main"]
    /\ UNCHANGED <<writerVars, mapiVars, proxyVars, chanVars,
                   mapi_state, dial, pcap, addr, abbr>>

\* The threads of the proxy run as long as the process does.
ProxyRuns ==
    /\ Running
    /\ NextChan

NextSignal ==
    \/ ProxyRuns
    \/ CtrlC
    \/ MainReturns

SpecSignal == InitChan /\ [][NextSignal]_vars

\* C14: the first invocation of the Ctrl-C handler calls the shutdown trigger
\* once and does not end the process; the second invocation ends the process
\* with status 1 and does not call the trigger; there is no later one.
C14_CtrlC ==
    /\ proc.trigger_calls = (IF proc.invocations = 0 THEN 0 ELSE 1)
    /\ proc.invocations <= 1 => proc.exit_by # "handler"
    /\ proc.invocations >= 2 =>
           /\ proc.invocations = 2
           /\ proc.exit_by = "handler"
           /\ proc.exit = 1

\* Ctrl-C was pressed twice while the proxy was at work.
C14_Witness ==
    /\ proc.invocations = 2
    /\ proc.exit = 1
    /\ Len(handled) >= 1
    /\ threads.reactor = "running"
-----------------------------------------------------------------------------
(* mapi/mod.rs: State, the accumulators of every connection.  accs maps a    *)
(* ConnectionId to its two accumulators; conns is the history of each        *)
(* connection (whether its client is a Unix one, what each side has sent,    *)
(* whether check_incomplete has reported its end); last is the event handled *)
(* last, with the accumulators of its connection before it and the calls     *)
(* made on the renderer while handling it.                                   *)

\* Direction::sender
Sender(direction) == IF direction = "Upstream" THEN "client" ELSE "server"

\* An Accumulator with the fields its methods of State's part use: id,
\* direction, and acc for level, analyzer, buf and error_reported.
Accumulator(id, direction, level, unix_client) ==
    [id |-> id, direction |-> direction, acc |-> AccNew(level, unix_client)]

\* add_connection that takes every analyzer for that of a Unix client's
\* upstream half.
AddConnectionBothUnix(accs, id, level, unix_client) ==
    [i \in DOMAIN accs \cup {id} |->
        IF i = id
        THEN [Upstream |-> Accumulator(id, "Upstream", level, unix_client),
              Downstream |-> Accumulator(id, "Downstream", level, unix_client)]
        ELSE accs[i]]

\* State::add_connection (it panics when accs holds id already)
AddConnection(accs, id, level, unix_client) ==
    [i \in DOMAIN accs \cup {id} |->
        IF i = id
        THEN [Upstream |-> Accumulator(id, "Upstream", level, unix_client),
              Downstream |-> Accumulator(id, "Downstream", level, FALSE)]
        ELSE accs[i]]

\* remove_connection that clears the table.
RemoveConnectionClear(accs, id) == [i \in {} |-> accs[i]]

\* State::remove_connection (it panics when accs does not hold id)
RemoveConnection(accs, id) == [i \in DOMAIN accs \ {id} |-> accs[i]]

\* A call on the renderer with its context.
Rendered(id, direction, call) == [id |-> id, direction |-> direction, call |-> call]

\* renderer.message(context, text)
Message(id, direction, text) ==
    Rendered(id, direction, Call("message", text, <<>>, -1))

\* The Data arm of State::handle: the accumulator of the direction handles
\* the data.  r is [accs, calls].
StateData(accs, id, direction, data) ==
    LET a == accs[id][direction]
        w == HandleData([acc |-> a.acc, calls |-> <<>>,
                         seen |-> [loops |-> <<>>, cls |-> {}, marks |-> <<>>,
                                   end |-> Len(data), start |-> 0,
                                   before |-> a.acc.buf,
                                   was_level |-> a.acc.level, writes |-> 0]],
                        data)
    IN [accs |-> [accs EXCEPT ![id][direction].acc = w.acc],
        calls |-> [i \in DOMAIN w.calls |-> Rendered(a.id, a.direction, w.calls[i])]]

\* Accumulator::check_incomplete: the error names the sender of the
\* accumulator's direction and the situation the analyzer was in.
AccCheckIncomplete(a) ==
    LET r == CheckIncompleteAn(a.acc.analyzer) IN
    [ok |-> r.ok,
     message |-> <<Sender(a.direction), "closed the connection", r.situation>>,
     a |-> [a EXCEPT !.acc.analyzer = r.an]]

\* State::check_incomplete that takes the accumulator of the other direction.
StateCheckIncompleteSwapped(accs, id, direction) ==
    LET other == IF direction = "Upstream" THEN "Downstream" ELSE "Upstream"
        r == AccCheckIncomplete(accs[id][other])
    IN [accs |-> [accs EXCEPT ![id][other] = r.a],
        calls |-> IF r.ok THEN <<>> ELSE <<Message(id, direction, r.message)>>]

\* State::check_incomplete: the error of the direction's accumulator is
\* rendered as a message.
StateCheckIncomplete(accs, id, direction) ==
    LET r == AccCheckIncomplete(accs[id][direction])
    IN [accs |-> [accs EXCEPT ![id][direction] = r.a],
        calls |-> IF r.ok THEN <<>> ELSE <<Message(id, direction, r.message)>>]

\* The ShutdownRead arm of State::handle
StateShutdownRead(accs, id, direction) ==
    LET r == StateCheckIncomplete(accs, id, direction)
    IN [accs |-> r.accs,
        calls |-> Append(r.calls,
                         Message(id, direction,
                                 <<Sender(direction), "stopped sending">>))]

\* The call tells of a protocol error: the message of handle_frame, or the
\* footer of a raw frame that names the byte of the error.
IsErrorNotice(call) ==
    \/ (call.op = "message" /\ call.kind = "mapi protocol error")
    \/ (call.op = "frame" /\ call.kind = "raw" /\ call.error_at >= 0)

\* The history of a connection at Incoming: nothing sent, no protocol error
\* told of; a Unix client sends its marker byte first.
Stream(marker) ==
    [sent |-> <<>>, at |-> IF marker THEN "marker" ELSE "lo", need |-> 0,
     payload |-> 0, eof |-> FALSE, broken |-> FALSE, notices |-> 0]

Conn(unix_client) ==
    [unix |-> unix_client, ended |-> "no", Upstream |-> Stream(unix_client),
     Downstream |-> Stream(FALSE)]

\* The number of bytes the Data events of the connections have carried.
RECURSIVE Traffic(_)
Traffic(conns) ==
    IF DOMAIN conns = {} THEN 0
    ELSE LET i == CHOOSE x \in DOMAIN conns : TRUE
         IN Len(conns[i].Upstream.sent) + Len(conns[i].Downstream.sent)
            + Traffic([j \in DOMAIN conns \ {i} |-> conns[j]])

\* The events that State::handle only renders as a message.
Notices == {"Connecting", "Connected", "ConnectFailed", "ShutdownWrite", "Oob"}

\* The connections that have accumulators.
Live == DOMAIN mapi_state.accs

exceptState == <<writerVars, mapiVars, proxyVars, chanVars, proc, dial, pcap, addr, abbr>>

\* mapi::State::new(level, force_binary)
InitState ==
    /\ NoWriter
    /\ NoMapi
    /\ NoProxy
    /\ NoChan
    /\ NoAbbr
    /\ NoSignal
    /\ NoDial
    /\ NoPcap
    /\ NoAddr
    /\ \E level \in Levels :
           mapi_state = [level |-> level, accs |-> <<>>, conns |-> <<>>,
                         last |-> NoEvent]

\* MapiEvent::Incoming: the proxy numbers the connections as it accepts them.
HandleIncoming(id, unix_client) ==
    /\ id = Cardinality(DOMAIN mapi_state.conns) + 1
    /\ mapi_state' =
           [mapi_state EXCEPT
               !.accs = AddConnection(@, id, mapi_state.level, unix_client),
               !.conns = [i \in DOMAIN @ \cup {id} |->
                             IF i = id THEN Conn(unix_client) ELSE @[i]],
               !.last = [event |-> "Incoming", id |-> id, direction |-> "none",
                         calls |-> <<Message(id, "none", <<"INCOMING">>)>>]]

StateIncoming(id, unix_client) ==
    /\ HandleIncoming(id, unix_client)
    /\ UNCHANGED exceptState

\* MapiEvent::Connecting, Connected, ConnectFailed, ShutdownWrite, Oob
HandleNotice(id, kind) ==
    /\ id \in Live
    /\ mapi_state' =
           [mapi_state EXCEPT
               !.last = [event |-> kind, id |-> id, direction |-> "none",
                         calls |-> <<Message(id, "none", <<kind>>)>>]]

StateNotice(id, kind) ==
    /\ HandleNotice(id, kind)
    /\ UNCHANGED exceptState

\* MapiEvent::Data carrying the next n bytes of a side of connection id, while
\* the connections have carried fewer than budget bytes
HandleDataEvent(id, direction, n, budget) ==
    /\ id \in Live
    /\ Traffic(mapi_state.conns) + n <= budget
    /\ \E ps \in Continuations(mapi_state.conns[id][direction], n) :
       \E data \in {SubSeq(ps.sent, Len(ps.sent) - n + 1, Len(ps.sent))} :
       \E r \in {StateData(mapi_state.accs, id, direction, data)} :
              mapi_state' =
                  [mapi_state EXCEPT
                      !.accs = r.accs,
                      !.conns[id][direction] =
                          [ps EXCEPT !.notices = @ + Len(SelectSeq(r.calls,
                              LAMBDA c : IsErrorNotice(c.call)))],
                      !.last = [event |-> "Data", id |-> id,
                                direction |-> direction,
                                calls |-> r.calls]]

StateDataEvent(id, direction, n, budget) ==
    /\ HandleDataEvent(id, direction, n, budget)
    /\ UNCHANGED exceptState

\* MapiEvent::ShutdownRead: a side of connection id has stopped sending
HandleShutdownReadEvent(id, direction) ==
    /\ id \in Live
    /\ ~mapi_state.conns[id][direction].eof
    /\ LET r == StateShutdownRead(mapi_state.accs, id, direction)
           reported == ~CheckIncompleteAn(
                            mapi_state.accs[id][direction].acc.analyzer).ok
       IN mapi_state' =
              [mapi_state EXCEPT
                  !.accs = r.accs,
                  !.conns[id][direction].eof = TRUE,
                  !.conns[id][direction].broken = reported,
                  !.last = [event |-> "ShutdownRead", id |-> id,
                            direction |-> direction,
                            calls |-> r.calls]]

StateShutdownReadEvent(id, direction) ==
    /\ HandleShutdownReadEvent(id, direction)
    /\ UNCHANGED exceptState

\* MapiEvent::End and MapiEvent::Aborted: a message, then remove_connection
HandleEnded(id, event) ==
    /\ id \in Live
    /\ mapi_state' =
           [mapi_state EXCEPT
               !.accs = RemoveConnection(@, id),
               !.conns[id].ended = event,
               !.last = [event |-> event, id |-> id, direction |-> "none",
                         calls |-> <<Message(id, "none", <<event>>)>>]]

StateEnded(id, event) ==
    /\ HandleEnded(id, event)
    /\ UNCHANGED exceptState

\* The events of the first connection: every arm of State::handle.
NextConn ==
    \/ \E unix_client \in BOOLEAN : StateIncoming(1, unix_client)
    \/ \E kind \in Notices : StateNotice(1, kind)
    \/ \E d \in Directions, n \in 1..MaxTraffic :
           StateDataEvent(1, d, n, MaxTraffic)
    \/ \E d \in Directions : StateShutdownReadEvent(1, d)
    \/ \E event \in {"End", "Aborted"} : StateEnded(1, event)

SpecConn == InitState /\ [][NextConn]_vars

\* The table of accumulators: connections come, carry data and go.
NextState ==
    \/ \E id \in ConnectionIds, unix_client \in BOOLEAN :
           StateIncoming(id, unix_client)
    \/ \E id \in ConnectionIds, d \in Directions, n \in 1..MaxShared :
           StateDataEvent(id, d, n, MaxShared)
    \/ \E id \in ConnectionIds, event \in {"End", "Aborted"} :
           StateEnded(id, event)

SpecState == InitState /\ [][NextState]_vars

\* The table of accumulators when senders stop as well: a sender that stops
\* in the middle of a frame leaves its analyzer in Error, and what it is said
\* to send afterwards is a protocol error.
NextLevels ==
    \/ \E id \in ConnectionIds : StateIncoming(id, FALSE)
    \/ \E id \in ConnectionIds, d \in Directions, n \in 1..MaxFaulty :
           StateDataEvent(id, d, n, MaxFaulty)
    \/ \E id \in ConnectionIds, d \in Directions : StateShutdownReadEvent(id, d)

SpecLevels == InitState /\ [][NextLevels]_vars

-----------------------------------------------------------------------------
(* State::handle with its renderer: the calls the accumulators make are      *)
(* carried out on a Renderer that abbreviates, header and footer as the      *)
(* code calls them.  ht and rd hold the renderer between the events (what    *)
(* the sink has received is not followed); rd.trace tells, for the event     *)
(* handled last, each header and footer with the state the writer was in.    *)

\* The bytes of a frame, each with the style it is shown in.  handle_raw
\* gives its bytes their styles; the error path and dump_frame show theirs in
\* Style::Normal.
FrameBytes(call) ==
    IF call.kind = "raw" THEN call.data
    ELSE [i \in DOMAIN call.data |-> <<call.data[i], "Normal">>]

\* dump_frame writes as text what is valid UTF-8 and not scary when binary is
\* not forced; handle_raw and the error path of handle_frame write binary.
IsText(call) == call.kind \in {"message", "block"}

\* The body of a frame.  dump_frame_as_text puts every byte, a newline as its
\* glyph followed by nl, and ends a line that was begun; Binary::add shows a
\* byte of Style::Normal in the style of its class, every other in the style
\* given, and Binary::finish ends the row.
RECURSIVE FrameBody(_, _, _)
FrameBody(r, data, text) ==
    IF data = <<>> THEN (IF r.at_start THEN r ELSE RNl(r))
    ELSE The({FrameBody(q, rest, text) :
                  q \in {LET b == Head(data)[1]
                             style == Head(data)[2]
                         IN IF text
                            THEN IF b = NL
                                 THEN RNl(RPut(SetStyle(r, "Normal"),
                                               <<226, 134, 181>>))
                                 ELSE RPut(SetStyle(r, "Normal"), <<b>>)
                            ELSE RPut(SetStyle(r, IF style = "Normal"
                                                  THEN StyleOf(b) ELSE style),
                                      <<b>>)},
                  rest \in {Tail(data)}})

\* An error path of handle_frame that does not call the footer of the
\* incomplete frame.
RenderFrameUnclosed(x, call, print_sep, announce) ==
    IF x.r.out.panicked THEN x
    ELSE The({IF r1.out.panicked THEN [r |-> r1, trace |-> t1]
              ELSE The({IF call.kind \in {"incomplete message before error",
                                          "incomplete block before error"}
                        THEN [r |-> r2, trace |-> t1]
                        ELSE [r |-> RFooter(r2, <<>>),
                              trace |-> Append(t1, [op |-> "footer",
                                                    state |-> r2.out.state])] :
                            r2 \in {FrameBody(r1, FrameBytes(call), IsText(call))}}) :
                  r1 \in {RHeader(x.r, <<32, 120>>, print_sep, announce)},
                  t1 \in {Append(x.trace, [op |-> "header",
                                           state |-> x.r.out.state])}})

\* A frame as handle_raw, dump_frame and the error path of handle_frame
\* render it: renderer.header, the body, renderer.footer.  x is the renderer
\* with the trace.
RenderFrame(x, call, print_sep, announce) ==
    IF x.r.out.panicked THEN x
    ELSE The({IF r1.out.panicked THEN [r |-> r1, trace |-> t1]
              ELSE The({[r |-> RFooter(r2, <<>>),
                         trace |-> Append(t1, [op |-> "footer",
                                               state |-> r2.out.state])] :
                            r2 \in {FrameBody(r1, FrameBytes(call), IsText(call))}}) :
                  r1 \in {RHeader(x.r, <<32, 120>>, print_sep, announce)},
                  t1 \in {Append(x.trace, [op |-> "header",
                                           state |-> x.r.out.state])}})

\* The calls of one event, in order; TrackTime answers for the first, the
\* later ones carry the same timestamp.
RECURSIVE RenderCalls(_, _, _, _)
RenderCalls(x, cs, print_sep, announce) ==
    IF cs = <<>> THEN x
    ELSE The({RenderCalls(y, rest, FALSE, FALSE) :
                  y \in {IF Head(cs).call.op = "message"
                         THEN IF x.r.out.panicked THEN x
                              ELSE [x EXCEPT !.r = RMessage(@, <<32, 120>>,
                                                            <<32, 120>>,
                                                            print_sep, announce)]
                         ELSE RenderFrame(x, Head(cs).call, print_sep, announce)},
                  rest \in {Tail(cs)}})

exceptFrames == <<mapiVars, proxyVars, chanVars, proc, dial, pcap, addr, abbr>>

\* Renderer::new with set_brief, mapi::State::new
InitFrames ==
    /\ NoMapi
    /\ NoProxy
    /\ NoChan
    /\ NoAbbr
    /\ NoSignal
    /\ NoDial
    /\ NoPcap
    /\ NoAddr
    /\ tail = NoTail
    /\ phase = "idle"
    /\ reg = NoRegion
    /\ roomed = TRUE
    /\ \E brief \in 0..MaxBrief :
           LET r == RNew("none", brief) IN
           /\ ht = r.out
           /\ rd = [colors |-> r.colors, abbreviate |-> r.abbreviate,
                    color_stack |-> r.color_stack,
                    current_style |-> r.current_style,
                    desired_style |-> r.desired_style,
                    at_start |-> r.at_start, records |-> 0, foot |-> <<>>,
                    trace |-> <<>>]
    /\ \E level \in Levels :
           mapi_state = [level |-> level, accs |-> <<>>, conns |-> <<>>,
                         last |-> NoEvent]

\* The calls of the event just handled are carried out on the renderer.
Rendering ==
    /\ \E print_sep, announce \in BOOLEAN :
           /\ FirstActivity(print_sep, announce)
           /\ \E x0 \in {[r |-> Renderer, trace |-> <<>>]},
                 cs \in {mapi_state'.last.calls} :
              \E x \in {RenderCalls(x0, cs, print_sep, announce)} :
                  /\ ht' = [x.r.out EXCEPT !.out = <<>>]
                  /\ rd' = [colors |-> x.r.colors, abbreviate |-> x.r.abbreviate,
                            color_stack |-> x.r.color_stack,
                            current_style |-> x.r.current_style,
                            desired_style |-> x.r.desired_style,
                            at_start |-> x.r.at_start, records |-> 1,
                            foot |-> <<>>, trace |-> x.trace]
    /\ UNCHANGED <<tail, phase, reg, roomed, exceptFrames>>

FramesIncoming(unix_client) ==
    /\ ~ht.panicked
    /\ HandleIncoming(1, unix_client)
    /\ Rendering

FramesNotice(kind) ==
    /\ ~ht.panicked
    /\ HandleNotice(1, kind)
    /\ Rendering

FramesData(d, n) ==
    /\ ~ht.panicked
    /\ HandleDataEvent(1, d, n, MaxTraffic)
    /\ Rendering

FramesShutdownRead(d) ==
    /\ ~ht.panicked
    /\ HandleShutdownReadEvent(1, d)
    /\ Rendering

FramesEnded(event) ==
    /\ ~ht.panicked
    /\ HandleEnded(1, event)
    /\ Rendering

\* The events of a connection whose client sends.
NextFrames ==
    \/ \E unix_client \in BOOLEAN : FramesIncoming(unix_client)
    \/ FramesNotice("Connected")
    \/ \E n \in 1..MaxTraffic : FramesData("Upstream", n)
    \/ \E d \in Directions : FramesShutdownRead(d)
    \/ \E event \in {"End", "Aborted"} : FramesEnded(event)

SpecFrames == InitFrames /\ [][NextFrames]_vars

-----------------------------------------------------------------------------
(* Properties of State::handle.                                             *)

\* The connections that have come and not gone.
Present == {i \in DOMAIN mapi_state.conns : mapi_state.conns[i].ended = "no"}

MidFrame(an) == an.st = "Header1" \/ (an.st = "Body" /\ an.remaining > 0)

\* C15: handling ShutdownRead{id, direction} renders the message that the
\* sender closed the connection, naming the state the analyzer of that
\* direction was in, exactly when that analyzer had consumed one byte of a
\* header or was in a body with bytes remaining; at a frame boundary it
\* renders none.  The sender is the client for Upstream and the server for
\* Downstream, and the message that it stopped sending follows in every case.
C15_ClosedMessage ==
    [][ mapi_state.last'.event = "ShutdownRead" =>
           LET id == mapi_state.last'.id
               d == mapi_state.last'.direction
               an == mapi_state.accs[id][d].acc.analyzer
               who == IF d = "Upstream" THEN "client" ELSE "server"
               out == mapi_state.last'.calls
               stopped == Message(id, d, <<who, "stopped sending">>)
               closed == Message(id, d, <<who, "closed the connection", an.st>>)
           IN IF MidFrame(an) THEN out = <<closed, stopped>>
                              ELSE out = <<stopped>>
      ]_vars

\* The server stops sending in the middle of a body while the client is in
\* the middle of a header.
C15_Witness ==
    /\ mapi_state.last.event = "ShutdownRead"
    /\ mapi_state.last.direction = "Downstream"
    /\ mapi_state.last.calls =
           <<Message(1, "Downstream", <<"server", "closed the connection", "Body">>),
             Message(1, "Downstream", <<"server", "stopped sending">>)>>
    /\ 1 \in Live
    /\ mapi_state.accs[1].Upstream.acc.analyzer.st = "Header1"
    /\ ~mapi_state.conns[1].Upstream.eof

\* The state of an analyzer that frames the stream as its sender does.
Framing(s) ==
    CASE s.at = "marker" -> "Prologue"
      [] s.at = "lo" -> "Header0"
      [] s.at = "hi" -> "Header1"
      [] s.at = "payload" -> "Body"

\* C16: the prologue rule applies to the upstream analyzer of a connection
\* whose client is on a Unix domain socket and to no other.  That analyzer
\* starts in Prologue, takes the first upstream byte as Head and frames from
\* the second byte on; the downstream analyzer of every connection and the
\* upstream analyzer of a TCP client start in Header0 and frame from the first
\* byte on.  (An accumulator at raw level does not feed its analyzer, and one
\* whose sender stopped in the middle of a frame is in Error.)
C16_Prologue ==
    \A id \in Live, d \in Directions :
        LET c == mapi_state.conns[id]
            s == c[d]
            a == mapi_state.accs[id][d].acc
            an == a.analyzer
            prologue == c.unix /\ d = "Upstream"
        IN /\ s.sent = <<>> =>
                  /\ an.st = IF prologue THEN "Prologue" ELSE "Header0"
                  /\ an.was = "None"
           /\ (a.level # "Raw" /\ ~s.broken) =>
                  /\ an.st = Framing(s)
                  /\ s.at = "payload" => an.remaining = s.need
                  /\ (an.st = "Prologue") = (prologue /\ s.sent = <<>>)
                  /\ (prologue /\ Len(s.sent) = 1) =>
                         /\ s.sent = <<Marker>>
                         /\ an.st = "Header0"
                         /\ an.was = "Head"
                  /\ (~prologue /\ Len(s.sent) = 1) =>
                         /\ an.st = "Header1"
                         /\ an.lo = s.sent[1]

\* A Unix client has sent its marker and a header, and is in the body of its
\* first block; the server has sent the first byte of a header.
C16_Witness ==
    /\ 1 \in Live
    /\ mapi_state.conns[1].unix
    /\ mapi_state.level = "Messages"
    /\ mapi_state.conns[1].Upstream.sent = <<Marker, 2, 0>>
    /\ mapi_state.accs[1].Upstream.acc.analyzer.st = "Body"
    /\ mapi_state.accs[1].Upstream.acc.analyzer.remaining = 1
    /\ Len(mapi_state.conns[1].Downstream.sent) = 1
    /\ mapi_state.accs[1].Downstream.acc.analyzer.st = "Header1"

\* The calls of the last event that render a frame of a block or a message.
Framed ==
    {i \in DOMAIN mapi_state.last.calls :
        /\ mapi_state.last.calls[i].call.op = "frame"
        /\ mapi_state.last.calls[i].call.kind \in {"block", "message"}}

\* C17 as it was stated: once a check_incomplete of the connection has
\* reported the end of a stream in the middle of a frame, no Data event of
\* the connection, in either direction, is rendered as block or message
\* frames.
C17_Original ==
    \A id \in Live :
        (/\ mapi_state.last.event = "Data"
         /\ mapi_state.last.id = id
         /\ \E d \in Directions : mapi_state.conns[id][d].broken)
        => Framed = {}

\* C17: once check_incomplete has reported that a direction of a connection
\* ended in the middle of a frame, every Data event of that direction of that
\* connection is rendered at raw level: its bytes make one raw frame, no
\* block or message frame is rendered (what was buffered is dumped once as an
\* incomplete frame before the error), and the accumulator stays at Raw.  The
\* other direction has its own accumulator and keeps its level.
C17_RawAfterEos ==
    \A id \in Live :
        (/\ mapi_state.last.event = "Data"
         /\ mapi_state.last.id = id
         /\ mapi_state.conns[id][mapi_state.last.direction].broken)
        => LET d == mapi_state.last.direction
               out == mapi_state.last.calls
               raw == out[Len(out)].call
               sent == mapi_state.conns[id][d].sent
           IN /\ Framed = {}
              /\ out # <<>>
              /\ \A i \in DOMAIN out :
                     /\ out[i].id = id
                     /\ out[i].direction = d
                     /\ out[i].call.op = "frame" =>
                            \/ i = Len(out) /\ out[i].call.kind = "raw"
                            \/ /\ i = 1
                               /\ out[i].call.kind \in
                                      {"incomplete message before error",
                                       "incomplete block before error"}
              /\ raw.op = "frame"
              /\ raw.data # <<>>
              /\ Len(raw.data) <= Len(sent)
              /\ [i \in DOMAIN raw.data |-> raw.data[i][1]]
                     = SubSeq(sent, Len(sent) - Len(raw.data) + 1, Len(sent))
              /\ mapi_state.accs[id][d].acc.level = "Raw"

\* The client stopped in the middle of a body at level Messages and a Data
\* event of the client follows: the buffered bytes, the error and a raw frame
\* are rendered.
C17_Witness ==
    /\ mapi_state.level = "Messages"
    /\ mapi_state.last.event = "Data"
    /\ mapi_state.last.direction = "Upstream"
    /\ 1 \in Live
    /\ mapi_state.conns[1].Upstream.broken
    /\ Len(mapi_state.last.calls) = 3
    /\ mapi_state.last.calls[1].call.kind = "incomplete message before error"
    /\ mapi_state.last.calls[3].call.kind = "raw"
    /\ mapi_state.accs[1].Downstream.acc.level = "Messages"


\* C35: over the life of an accumulator at most one notice of a protocol
\* error is rendered (the message of handle_frame or the footer of a raw
\* frame that names the byte); error_reported never returns to FALSE; the
\* level Raw is never left; and a level changes only to Raw and only for the
\* accumulator of the direction whose Data is handled: the accumulators of the
\* other direction and of the other connections keep theirs.
C35_OnceAndLocal ==
    [][ /\ \A id \in DOMAIN mapi_state.conns', d \in Directions :
               mapi_state.conns'[id][d].notices <= 1
        /\ \A id \in DOMAIN mapi_state.accs \cap DOMAIN mapi_state.accs',
                 d \in Directions :
               LET a == mapi_state.accs[id][d].acc
                   b == mapi_state.accs'[id][d].acc
               IN /\ a.error_reported => b.error_reported
                  /\ a.level = "Raw" => b.level = "Raw"
                  /\ b.level # a.level =>
                         /\ b.level = "Raw"
                         /\ mapi_state.last'.event = "Data"
                         /\ mapi_state.last'.id = id
                         /\ mapi_state.last'.direction = d
      ]_vars

\* The client of connection 1 stopped in the middle of a header and is said
\* to send more: its accumulator has told of the error once and is at level
\* Raw, the other direction and connection 2 are at the level they were made
\* with.
C35_Witness ==
    /\ Live = {1, 2}
    /\ mapi_state.level # "Raw"
    /\ mapi_state.conns[1].Upstream.notices = 1
    /\ mapi_state.accs[1].Upstream.acc.level = "Raw"
    /\ mapi_state.accs[1].Upstream.acc.error_reported
    /\ mapi_state.accs[1].Downstream.acc.level = mapi_state.level
    /\ \A d \in Directions : mapi_state.accs[2][d].acc.level = mapi_state.level
    /\ mapi_state.last.event = "Data"
    /\ mapi_state.last.id = 1

\* C34: when End or Aborted of a connection is handled, the accumulators that
\* are destroyed hold no payload in their pending buffers: every Body byte
\* that was delivered at level Blocks or Messages has been rendered in a frame.
C34_NothingWithheld ==
    [][ mapi_state.last'.event \in {"End", "Aborted"} =>
           \A d \in Directions :
               mapi_state.accs[mapi_state.last'.id][d].acc.buf = <<>>
      ]_vars

\* The part of C34 about a sender that stopped: after ShutdownRead of a
\* direction its accumulator holds no payload in its pending buffer.
C34_NothingHeldAtEof ==
    \A id \in Live, d \in Directions :
        mapi_state.conns[id][d].eof => mapi_state.accs[id][d].acc.buf = <<>>

\* The headers and footers of the trace t alternate, the first a header, the
\* last a footer; every header found the writer in Passthrough and every
\* footer found it in Head or Tail.
Alternate(t) ==
    /\ Len(t) % 2 = 0
    /\ \A j \in DOMAIN t :
           IF j % 2 = 1
           THEN t[j].op = "header" /\ t[j].state = "Passthrough"
           ELSE t[j].op = "footer" /\ t[j].state \in {"Head", "Tail"}

\* C31: with abbreviation enabled, whatever events State::handle is given,
\* header and footer alternate frame by frame: head_tail is called in
\* Passthrough only, finish_tail in Head or Tail only, neither panics, and
\* every event leaves the writer in Passthrough.
C31_Alternation ==
    (rd.abbreviate >= 0 /\ mapi_state.last.event # "none") =>
        /\ ~ht.panicked
        /\ ht.state = "Passthrough"
        /\ Alternate(rd.trace)

\* The error path of handle_frame: the incomplete message, the message of the
\* error and the raw dump of the slice, two frames around one message, the
\* writer having reached its tail.
C31_Witness ==
    /\ rd.abbreviate = 1
    /\ mapi_state.last.event = "Data"
    /\ Len(mapi_state.last.calls) = 3
    /\ mapi_state.last.calls[1].call.kind = "incomplete message before error"
    /\ mapi_state.last.calls[2].call.kind = "mapi protocol error"
    /\ mapi_state.last.calls[3].call.kind = "raw"
    /\ Len(rd.trace) = 4
    /\ rd.trace[2].state = "Tail"
    /\ ~ht.panicked
-----------------------------------------------------------------------------
(* The outbound connection of one accepted connection (proxy/): the forward  *)
(* address resolves to endpoints 1..n, tried in that order.  What a connect  *)
(* to an endpoint comes to is the endpoint's fate.                           *)

\* connect() fails at once; the connect is under way and fails; the socket's
\* error cannot be read; the connect is under way and succeeds; it succeeds
\* but the peer's address cannot be read.
Fates == {"refused", "unreachable", "broken", "accepts", "nameless"}

\* What peer_addr fails with while the connect is under way.
NotYet == {"NotConnected", "WouldBlock"}

\* What the outbound socket shows when it is reported writable: early is
\* "no" when the connect to an endpoint of this fate has ended, else what
\* peer_addr fails with before it has.  take_error is "None" for Ok(None),
\* "Some" for Ok(Some(e)) and "Err" for Err(e).
Socket(fate, early) ==
    IF early \in NotYet THEN [take_error |-> "None", peer |-> early]
    ELSE CASE fate = "unreachable" ->
                  [take_error |-> "Some", peer |-> "NotConnected"]
           [] fate = "broken" -> [take_error |-> "Err", peer |-> "addr"]
           [] fate = "accepts" -> [take_error |-> "None", peer |-> "addr"]
           [] fate = "nameless" ->
                  [take_error |-> "None", peer |-> "InvalidInput"]

\* MioStream::new: connect() on a non-blocking socket returns the stream, or
\* the error of a connect that failed at once.
MioStreamNew(fate) == IF fate = "refused" THEN "Err" ELSE "Ok"

\* established() that takes a socket without an error for a connected one.
EstablishedEager(sock) == IF sock.take_error # "None" THEN "Err" ELSE "Some"

\* established() that does not look at the error returned by take_error.
EstablishedUnchecked(sock) ==
    IF sock.take_error = "Some" THEN "Err"
    ELSE CASE sock.peer = "addr" -> "Some"
           [] sock.peer \in {"WouldBlock", "NotConnected"} -> "None"
           [] OTHER -> "Err"

\* MioStream::established: Err for an error on the socket or of peer_addr,
\* None while the socket is not connected, Some(addr) once it is.
Established(sock) ==
    IF sock.take_error \in {"Err", "Some"} THEN "Err"
    ELSE CASE sock.peer = "addr" -> "Some"
           [] sock.peer \in {"WouldBlock", "NotConnected"} -> "None"
           [] OTHER -> "Err"

\* The events of the outbound connection.
Connecting(remote) == [event |-> "Connecting", remote |-> remote, immediately |-> FALSE]
ConnectFailed(remote, immediately) ==
    [event |-> "ConnectFailed", remote |-> remote, immediately |-> immediately]
Connected == [event |-> "Connected", remote |-> 0, immediately |-> FALSE]
Aborted == [event |-> "Aborted", remote |-> 0, immediately |-> FALSE]

\* The endpoints from i on are tried until a connect() is under way: each
\* try emits Connecting, a connect() that fails at once emits ConnectFailed
\* with immediately set and the next endpoint is tried; with no endpoint left
\* the connection is aborted.
RECURSIVE TryFrom(_, _)
TryFrom(d, i) ==
    IF i > Len(d.fates)
    THEN [d EXCEPT !.state = "Closed", !.cur = 0, !.waits = 0,
                   !.events = Append(@, Aborted)]
    ELSE LET d1 == [d EXCEPT !.events = Append(@, Connecting(i))] IN
         IF MioStreamNew(d.fates[i]) = "Err"
         THEN TryFrom([d1 EXCEPT !.events = Append(@, ConnectFailed(i, TRUE))],
                      i + 1)
         ELSE [d1 EXCEPT !.state = "Connecting", !.cur = i, !.waits = 0]

\* The Connecting, Connected and ConnectFailed arms of State::handle (Aborted
\* as in StateEnded): the message rendered for an event.
Notice(e) ==
    CASE e.event = "Connecting" -> <<"CONNECTING to ", e.remote>>
      [] e.event = "Connected" -> <<"CONNECTED">>
      [] e.event = "ConnectFailed" ->
            <<"CONNECT FAILED", IF e.immediately THEN " immediately" ELSE "",
              ": ", e.remote>>
      [] e.event = "Aborted" -> <<"ABORTED">>

exceptDial == <<writerVars, mapiVars, proxyVars, chanVars, proc, mapi_state, pcap, addr, abbr>>

\* A connection has been accepted; its forward address has resolved.
InitDial ==
    /\ NoWriter
    /\ NoMapi
    /\ NoProxy
    /\ NoChan
    /\ NoAbbr
    /\ NoSignal
    /\ NoState
    /\ NoPcap
    /\ NoAddr
    /\ \E n \in 1..MaxEndpoints : \E fates \in [1..n -> Fates] :
           dial = [fates |-> fates, state |-> "Accepted", cur |-> 0,
                   waits |-> 0, events |-> <<>>, shown |-> <<>>,
                   sock |-> <<>>, result |-> "none"]

\* After Incoming the endpoints are tried from the first on.
DialStart ==
    /\ dial # <<>>
    /\ dial.state = "Accepted"
    /\ dial' = TryFrom(dial, 1)
    /\ UNCHANGED exceptDial

\* The outbound socket is reported writable, early or not: established()
\* tells whether the connect has ended.  On an error ConnectFailed is emitted
\* and the endpoints after the current one are tried.
DialWritable(early) ==
    /\ dial # <<>>
    /\ dial.state = "Connecting"
    /\ early \in NotYet => dial.waits < MaxWaits
    /\ LET sock == Socket(dial.fates[dial.cur], early)
           r == Established(sock)
           d == [dial EXCEPT !.sock = sock, !.result = r]
       IN dial' =
              CASE r = "None" -> [d EXCEPT !.waits = @ + 1]
                [] r = "Some" ->
                      [d EXCEPT !.state = "Established",
                                !.events = Append(@, Connected)]
                [] r = "Err" ->
                      TryFrom([d EXCEPT
                                  !.events = Append(@, ConnectFailed(dial.cur,
                                                                     FALSE))],
                              dial.cur + 1)
    /\ UNCHANGED exceptDial

\* The consumer handles the next event: State::handle renders its message.
DialHandle ==
    /\ dial # <<>>
    /\ Len(dial.shown) < Len(dial.events)
    /\ dial' = [dial EXCEPT
                   !.shown = Append(@, Notice(dial.events[Len(dial.shown) + 1]))]
    /\ UNCHANGED exceptDial

NextDial ==
    \/ DialStart
    \/ \E early \in {"no"} \cup NotYet : DialWritable(early)
    \/ DialHandle

SpecDial == InitDial /\ [][NextDial]_vars

-----------------------------------------------------------------------------
(* Properties of the outbound connection.                                   *)

\* The places in the events where an event of this kind is.
At(kind) == {p \in DOMAIN dial.events : dial.events[p].event = kind}

\* C13: the endpoints are tried one at a time in resolution order: the k-th
\* Connecting names endpoint k, and but for the first it follows at once on
\* the ConnectFailed of endpoint k - 1.  A ConnectFailed names the endpoint of
\* the Connecting before it, whose connect did fail, and has immediately set
\* exactly when connect() itself returned the failure.  Connected is emitted
\* at most once, for an endpoint that accepts, and is the last event; Aborted
\* is emitted exactly when every endpoint has failed.  The consumer renders
\* each event, ConnectFailed with " immediately" exactly when the flag is set.
C13_OneAtATime ==
    dial # <<>> =>
    LET ev == dial.events
        n == Len(dial.fates)
        tried == Cardinality(At("Connecting"))
    IN /\ tried <= n
       /\ \A p \in At("Connecting") :
              LET r == ev[p].remote IN
              /\ r = Cardinality({q \in At("Connecting") : q <= p})
              /\ r > 1 => /\ p > 1
                          /\ ev[p - 1] \in {ConnectFailed(r - 1, TRUE),
                                            ConnectFailed(r - 1, FALSE)}
              /\ r = 1 => p = 1
       /\ \A p \in At("ConnectFailed") :
              LET r == ev[p].remote IN
              /\ p > 1
              /\ ev[p - 1] = Connecting(r)
              /\ dial.fates[r] \in {"refused", "unreachable", "broken",
                                    "nameless"}
              /\ ev[p].immediately = (dial.fates[r] = "refused")
       /\ Cardinality(At("Connected")) <= 1
       /\ \A p \in At("Connected") :
              /\ p = Len(ev)
              /\ p > 1
              /\ ev[p - 1].event = "Connecting"
              /\ dial.fates[ev[p - 1].remote] = "accepts"
              /\ dial.state = "Established"
       /\ Cardinality(At("Aborted")) <= 1
       /\ (At("Aborted") # {}) = (Cardinality(At("ConnectFailed")) = n)
       /\ \A p \in At("Aborted") : p = Len(ev) /\ dial.state = "Closed"
       /\ (dial.state = "Connecting") =
              (ev # <<>> /\ ev[Len(ev)].event = "Connecting")
       /\ Len(dial.shown) <= Len(ev)
       /\ \A p \in DOMAIN dial.shown :
              /\ dial.shown[p][1] =
                     CASE ev[p].event = "Connecting" -> "CONNECTING to "
                       [] ev[p].event = "Connected" -> "CONNECTED"
                       [] ev[p].event = "ConnectFailed" -> "CONNECT FAILED"
                       [] ev[p].event = "Aborted" -> "ABORTED"
              /\ ev[p].event = "ConnectFailed" =>
                     /\ (dial.shown[p][2] = " immediately") = ev[p].immediately
                     /\ dial.shown[p][4] = ev[p].remote

\* The first endpoint refuses at once, the second fails later, the third
\* accepts; every event has been rendered.
C13_Witness ==
    /\ dial # <<>>
    /\ dial.fates = <<"refused", "unreachable", "accepts">>
    /\ dial.events = <<Connecting(1), ConnectFailed(1, TRUE), Connecting(2),
                       ConnectFailed(2, FALSE), Connecting(3), Connected>>
    /\ Len(dial.shown) = 6
    /\ dial.waits = 1

\* C36: an outbound socket is reported as established, and Connected is
\* emitted, only when take_error returns no pending error and peer_addr
\* returns an address.  established() yields an error when take_error fails
\* or reports a socket error, None when peer_addr fails with NotConnected or
\* WouldBlock, the peer address when peer_addr returns one, and an error for
\* any other failure of peer_addr.
C36_Established ==
    (dial # <<>> /\ dial.sock # <<>>) =>
        /\ dial.result =
               CASE dial.sock.take_error = "Err" -> "Err"
                 [] dial.sock.take_error = "Some" -> "Err"
                 [] dial.sock.peer = "NotConnected" -> "None"
                 [] dial.sock.peer = "WouldBlock" -> "None"
                 [] dial.sock.peer = "addr" -> "Some"
                 [] OTHER -> "Err"
        /\ At("Connected") # {} =>
               /\ dial.sock = [take_error |-> "None", peer |-> "addr"]
               /\ dial.result = "Some"
        /\ dial.result = "Some" => At("Connected") # {}

\* The first endpoint's socket error could not be read and the endpoint was
\* given up; the second was found not yet connected once and then
\* established.
C36_Witness ==
    /\ dial # <<>>
    /\ dial.fates = <<"broken", "accepts">>
    /\ dial.events = <<Connecting(1), ConnectFailed(1, FALSE), Connecting(2),
                       Connected>>
    /\ dial.waits = 1
    /\ dial.result = "Some"

-----------------------------------------------------------------------------
(* pcap/: the packets of a capture are dissected (tracker.rs) and the TCP    *)
(* segments of a flow are put in order by the TcpTracker.  A packet is       *)
(* [ether, net, fragmented, proto, tcp_ok, src, seq, payload]: whether the   *)
(* Ethernet frame parses, the network layer it holds, whether the IP payload *)
(* is fragmented, the protocol of the IP payload, whether the TCP header     *)
(* parses, and the sender, sequence number and payload of a TCP segment.     *)

\* The sequence numbers of the first payload bytes of the flow.
FirstSeq(src) == IF src = "client" THEN 1000 ELSE 5000

\* The k-th segment of a sender: two bytes, A B C ... from the client and
\* a b c ... from the server.
Segment(net, src, k) ==
    [ether |-> "ok", net |-> net, fragmented |-> FALSE, proto |-> "TCP",
     tcp_ok |-> TRUE, src |-> src, seq |-> FirstSeq(src) + 2 * (k - 1),
     payload |-> LET a == (IF src = "client" THEN 65 ELSE 97) + 2 * (k - 1)
                 IN <<a, a + 1>>]

\* A packet that is not a segment of the flow.
Other(ether, net, fragmented, proto, tcp_ok) ==
    [ether |-> ether, net |-> net, fragmented |-> fragmented, proto |-> proto,
     tcp_ok |-> tcp_ok, src |-> "other", seq |-> 0, payload |-> <<>>]

\* The packets a capture of a flow over net can hold.
Packets(net) ==
    {Segment(net, "client", k) : k \in 1..MaxSegments}
    \cup {Segment(net, "server", 1)}
    \cup {Other("malformed", "none", FALSE, "none", FALSE),
          Other("ok", "none", FALSE, "ARP", FALSE),
          Other("ok", "Ipv4", FALSE, "UDP", FALSE),
          Other("ok", "Ipv4", TRUE, "UDP", FALSE),
          Other("ok", "Ipv6", FALSE, "ICMPv6", FALSE),
          Other("ok", "Ipv6", TRUE, "UDP", FALSE),
          Other("ok", "Ipv4", FALSE, "TCP", FALSE),
          Other("ok", "Ipv6", FALSE, "TCP", FALSE),
          Other("ok", "Ipv4", TRUE, "TCP", TRUE),
          Other("ok", "Ipv6", TRUE, "TCP", TRUE)}

\* The number of segments ahead of the expected one that a half-flow holds.
GapCap == 2

Flow(src) == IF src = "client" THEN "Upstream" ELSE "Downstream"

Data(direction, seq, payload) ==
    [event |-> "Data", direction |-> direction, seq |-> seq, payload |-> payload]

\* The held segments that have become the expected ones are emitted.
RECURSIVE Drain(_, _)
Drain(tr, d) ==
    IF \E h \in tr.held[d] : h.seq = tr.next[d]
    THEN LET h == CHOOSE x \in tr.held[d] : x.seq = tr.next[d]
         IN Drain([tr EXCEPT !.held[d] = @ \ {h},
                             !.next[d] = @ + Len(h.payload),
                             !.events = Append(@, Data(d, h.seq, h.payload))],
                  d)
    ELSE tr

\* A TcpTracker that emits every segment as it arrives.
TcpTrackerHandleEager(tr, pkt) ==
    [ok |-> TRUE,
     tr |-> [tr EXCEPT !.events = Append(@, Data(Flow(pkt.src), pkt.seq,
                                                  pkt.payload))]]

\* TcpTracker::handle for a segment with payload: a segment before the
\* expected sequence number is a retransmission and is dropped, the expected
\* one is emitted and the held ones after it with it, one ahead of it is
\* held, and it is an error when that many are held already.
TcpTrackerHandle(tr, pkt) ==
    LET d == Flow(pkt.src)
        h == [seq |-> pkt.seq, payload |-> pkt.payload]
    IN CASE pkt.seq < tr.next[d] -> [ok |-> TRUE, tr |-> tr]
         [] pkt.seq = tr.next[d] ->
               [ok |-> TRUE,
                tr |-> Drain([tr EXCEPT
                                 !.next[d] = @ + Len(pkt.payload),
                                 !.events = Append(@, Data(d, pkt.seq,
                                                           pkt.payload))],
                             d)]
         [] pkt.seq > tr.next[d] ->
               IF h \in tr.held[d] THEN [ok |-> TRUE, tr |-> tr]
               ELSE IF Cardinality(tr.held[d]) >= GapCap
               THEN [ok |-> FALSE, tr |-> tr]
               ELSE [ok |-> TRUE, tr |-> [tr EXCEPT !.held[d] = @ \cup {h}]]

\* Tracker::handle_tcp
HandleTcp(tr, pkt) == TcpTrackerHandle(tr, pkt)

\* handle_ipv4 that looks at the protocol before it looks for fragments.
HandleIpv4ProtocolFirst(tr, pkt) ==
    IF pkt.proto # "TCP" THEN [ok |-> TRUE, tr |-> tr]
    ELSE IF pkt.fragmented THEN [ok |-> FALSE, tr |-> tr]
    ELSE IF ~pkt.tcp_ok THEN [ok |-> TRUE, tr |-> tr]
    ELSE HandleTcp(tr, pkt)

\* Tracker::handle_ipv4
HandleIpv4(tr, pkt) ==
    IF pkt.fragmented THEN [ok |-> FALSE, tr |-> tr]
    ELSE IF pkt.proto # "TCP" THEN [ok |-> TRUE, tr |-> tr]
    ELSE IF ~pkt.tcp_ok THEN [ok |-> TRUE, tr |-> tr]
    ELSE HandleTcp(tr, pkt)

\* Tracker::handle_ipv6
HandleIpv6(tr, pkt) ==
    IF pkt.fragmented THEN [ok |-> FALSE, tr |-> tr]
    ELSE IF pkt.proto # "TCP" THEN [ok |-> TRUE, tr |-> tr]
    ELSE IF ~pkt.tcp_ok THEN [ok |-> TRUE, tr |-> tr]
    ELSE HandleTcp(tr, pkt)

\* Tracker::process_ethernet
ProcessEthernet(tr, pkt) ==
    IF pkt.ether # "ok" THEN [ok |-> FALSE, tr |-> tr]
    ELSE CASE pkt.net = "Ipv4" -> HandleIpv4(tr, pkt)
           [] pkt.net = "Ipv6" -> HandleIpv6(tr, pkt)
           [] pkt.net = "none" -> [ok |-> TRUE, tr |-> tr]

\* process_packet
ProcessPacket(linktype, tr, pkt) ==
    IF linktype = "ETHERNET" THEN ProcessEthernet(tr, pkt)
    ELSE [ok |-> FALSE, tr |-> tr]

exceptPcap == <<writerVars, mapiVars, proxyVars, chanVars, proc, mapi_state, dial, addr, abbr>>

\* A capture of one flow, over IPv4 or IPv6, whose handshake has been read.
InitPcap ==
    /\ NoWriter
    /\ NoMapi
    /\ NoProxy
    /\ NoChan
    /\ NoAbbr
    /\ NoSignal
    /\ NoState
    /\ NoDial
    /\ NoAddr
    /\ \E net \in {"Ipv4", "Ipv6"}, linktype \in {"ETHERNET", "RAW"} :
           pcap = [net |-> net, linktype |-> linktype, n |-> 0, result |-> "reading",
                   tr |-> [next |-> [d \in Directions |->
                                       IF d = "Upstream" THEN FirstSeq("client")
                                                         ELSE FirstSeq("server")],
                           held |-> [d \in Directions |-> {}],
                           events |-> <<>>],
                   arrived |-> {}, last |-> <<>>, before |-> 0]

\* The loop of parse_legacy_pcap and parse_pcap_ng reads the next packet and
\* processes it; an error ends the parsing.
PcapPacket(pkt) ==
    /\ pcap # <<>>
    /\ pcap.result = "reading"
    /\ pcap.n < MaxPackets
    /\ \E r \in {ProcessPacket(pcap.linktype, pcap.tr, pkt)} :
           pcap' = [pcap EXCEPT
                       !.n = @ + 1,
                       !.result = IF r.ok THEN "reading" ELSE "Err",
                       !.tr = r.tr,
                       !.arrived = IF pkt.src = "client" /\ r.ok
                                   THEN @ \cup {pkt.seq} ELSE @,
                       !.last = pkt,
                       !.before = Len(pcap.tr.events)]
    /\ UNCHANGED exceptPcap

\* The capture has no more packets: the parsing returns Ok.
PcapEnd ==
    /\ pcap # <<>>
    /\ pcap.result = "reading"
    /\ pcap' = [pcap EXCEPT !.result = "Ok"]
    /\ UNCHANGED exceptPcap

NextPcap ==
    \/ \E pkt \in Packets(pcap.net) : PcapPacket(pkt)
    \/ PcapEnd

SpecPcap == InitPcap /\ [][NextPcap]_vars

-----------------------------------------------------------------------------
(* Properties of the dissection and of the reassembly.                      *)

\* The Data events of a direction, in the order emitted.
DataOf(d) ==
    SelectSeq(pcap.tr.events, LAMBDA e : e.event = "Data" /\ e.direction = d)

\* The payload the client sends: its segments in sequence-number order.
ClientPayload ==
    Concat([k \in 1..MaxSegments |-> Segment(pcap.net, "client", k).payload])

\* The sequence numbers of the client's segments.
ClientSeqs == {Segment(pcap.net, "client", k).seq : k \in 1..MaxSegments}

\* C18: the payloads of the Data{Upstream} events emitted for the flow, put
\* together, are the client's payload in sequence-number order as far as it
\* has arrived without a gap: each event starts at the sequence number the
\* one before it ended at, a segment ahead of the expected sequence number is
\* held and is emitted only when the segments before it have arrived, and
\* once all segments have arrived the whole payload has been emitted.
C18_InOrder ==
    pcap # <<>> =>
    LET up == DataOf("Upstream")
        out == Concat([i \in DOMAIN up |-> up[i].payload])
        next == pcap.tr.next.Upstream
        held == pcap.tr.held.Upstream
    IN /\ IsPrefix(out, ClientPayload)
       /\ next = FirstSeq("client") + Len(out)
       /\ \A i \in DOMAIN up :
              up[i].seq = FirstSeq("client")
                          + Len(Concat([j \in 1..(i - 1) |-> up[j].payload]))
       /\ \A s \in ClientSeqs : s < next => s \in pcap.arrived
       /\ next \notin pcap.arrived
       /\ {h.seq : h \in held} = {s \in pcap.arrived : s > next}
       /\ Cardinality(held) <= GapCap
       /\ pcap.arrived = ClientSeqs => out = ClientPayload
       /\ IsPrefix(Concat([i \in DOMAIN DataOf("Downstream") |->
                              DataOf("Downstream")[i].payload]),
                   Segment(pcap.net, "server", 1).payload)

\* The capture holds the client's segments 1, 3, 2 in this order with a
\* segment of the server among them: AB, CD, EF are emitted, and EF by the
\* packet that carried CD.
C18_Witness ==
    /\ pcap # <<>>
    /\ pcap.result = "Ok"
    /\ pcap.last = Segment(pcap.net, "client", 2)
    /\ pcap.before = 2
    /\ pcap.tr.events =
           <<Data("Upstream", 1000, <<65, 66>>),
             Data("Downstream", 5000, <<97, 98>>),
             Data("Upstream", 1002, <<67, 68>>),
             Data("Upstream", 1004, <<69, 70>>)>>
    /\ pcap.arrived = {1000, 1002, 1004}

\* A packet that the dissection finds not to be a TCP segment.
NonTcp(pkt) == pkt.ether = "ok" /\ pkt.proto # "TCP"

\* The number of events the last packet has emitted.
EmittedByLast == Len(pcap.tr.events) - pcap.before

\* C19 as it was stated: every packet that is not TCP is dropped without an
\* event and without an error.
C19_Original ==
    (pcap # <<>> /\ pcap.last # <<>> /\ pcap.linktype = "ETHERNET"
       /\ NonTcp(pcap.last))
    => /\ EmittedByLast = 0
       /\ pcap.result # "Err"

\* C19: a packet of an Ethernet capture that is not TCP and whose IP payload
\* is not fragmented is dropped: it emits no event, is no error, leaves the
\* reassembly as it was, and the parsing goes on.  A fragmented IP payload is
\* an error whatever its protocol, and ends the parsing.
C19_DroppedUnlessFragmented ==
    [][ (pcap'.n = pcap.n + 1 /\ pcap.linktype = "ETHERNET" /\ NonTcp(pcap'.last))
        => IF pcap'.last.fragmented
           THEN pcap'.result = "Err" /\ pcap'.tr = pcap.tr
           ELSE /\ pcap'.result = "reading"
                /\ pcap'.tr = pcap.tr
                /\ pcap'.arrived = pcap.arrived
      ]_vars

\* A UDP packet over IPv4 is read between segments of the client: the first
\* segment was emitted before it, the third and fourth are held, and the
\* parsing goes on.
C19_Witness ==
    /\ pcap # <<>>
    /\ pcap.last = Other("ok", "Ipv4", FALSE, "UDP", FALSE)
    /\ pcap.result = "reading"
    /\ pcap.n = 4
    /\ EmittedByLast = 0
    /\ Len(pcap.tr.events) = 1
    /\ Cardinality(pcap.tr.held.Upstream) = 2

-----------------------------------------------------------------------------
(* addr.rs: the address a user gives is parsed into a MonetAddr, and a       *)
(* MonetAddr is displayed.  An address given is a string of bytes; BadByte   *)
(* stands for a byte that is not valid UTF-8 and Replacement for U+FFFD.     *)

BadByte == "?"
Replacement == "~"

Ch(s, i) == SubSeq(s, i, i)
Chars(s) == {Ch(s, i) : i \in 1..Len(s)}

Digits == "0123456789"
LowerHex == "0123456789abcdef"
UpperHex == "0123456789ABCDEF"
Letters == "abcdefghijklmnopqrstuvwxyzABCDEFGHIJKLMNOPQRSTUVWXYZ"

IsDigit(c) == c \in Chars(Digits)
IsHex(c) == c \in Chars(LowerHex) \cup Chars(UpperHex)
HexVal(c) == (CHOOSE i \in 1..16 : Ch(LowerHex, i) = c \/ Ch(UpperHex, i) = c) - 1
AllOf(s, Is(_)) == \A i \in 1..Len(s) : Is(Ch(s, i))

\* The value of a string of digits in base radix.
RECURSIVE Value(_, _)
Value(s, radix) ==
    IF s = "" THEN 0
    ELSE Value(SubSeq(s, 1, Len(s) - 1), radix) * radix + HexVal(Ch(s, Len(s)))

\* Display of an unsigned integer in base radix.
RECURSIVE Numeral(_, _)
Numeral(n, radix) ==
    IF n < radix THEN Ch(LowerHex, n + 1)
    ELSE Numeral(n \div radix, radix) \o Ch(LowerHex, (n % radix) + 1)

\* The pieces of s between the occurrences of the character sep.
RECURSIVE Split(_, _)
Split(s, sep) ==
    IF \A i \in 1..Len(s) : Ch(s, i) # sep THEN <<s>>
    ELSE LET i == CHOOSE k \in 1..Len(s) :
                     Ch(s, k) = sep /\ \A j \in 1..(k - 1) : Ch(s, j) # sep
         IN <<SubSeq(s, 1, i - 1)>> \o Split(SubSeq(s, i + 1, Len(s)), sep)

\* The strings joined with sep between them.
RECURSIVE Join(_, _)
Join(ss, sep) ==
    IF ss = <<>> THEN ""
    ELSE IF Len(ss) = 1 THEN ss[1]
    ELSE ss[1] \o sep \o Join(Tail(ss), sep)

\* str::parse::<u16>(): an optional + and digits, the value within 16 bits.
ParseU16(s) ==
    LET body == IF s # "" /\ Ch(s, 1) = "+" THEN SubSeq(s, 2, Len(s)) ELSE s IN
    IF body = "" \/ ~AllOf(body, IsDigit) THEN [ok |-> FALSE, value |-> 0]
    ELSE IF Len(body) > 6 \/ Value(body, 10) >= 2^16 THEN [ok |-> FALSE, value |-> 0]
    ELSE [ok |-> TRUE, value |-> Value(body, 10)]

\* Ipv4Addr::from_str: four numbers of at most three digits, at most 255 and
\* without a leading zero, with dots between them.
ParseIpv4(s) ==
    LET parts == Split(s, ".")
        good(part) == /\ part # ""
                      /\ Len(part) <= 3
                      /\ AllOf(part, IsDigit)
                      /\ Len(part) > 1 => Ch(part, 1) # "0"
                      /\ Value(part, 10) <= 255
    IN IF Len(parts) = 4 /\ \A i \in 1..4 : good(parts[i])
       THEN [ok |-> TRUE, octets |-> [i \in 1..4 |-> Value(parts[i], 10)]]
       ELSE [ok |-> FALSE, octets |-> <<>>]

\* Ipv6Addr::from_str on a string of hex digits and colons: eight groups of
\* one to four hex digits, or fewer with one "::" standing for the groups
\* that are zero.
ParseIpv6(s) ==
    LET gaps == {i \in 1..(Len(s) - 1) : Ch(s, i) = ":" /\ Ch(s, i + 1) = ":"}
        groups(part) == IF part = "" THEN <<>> ELSE Split(part, ":")
        good(gs) == \A i \in DOMAIN gs :
                        gs[i] # "" /\ Len(gs[i]) <= 4 /\ AllOf(gs[i], IsHex)
        values(gs) == [i \in DOMAIN gs |-> Value(gs[i], 16)]
        bad == [ok |-> FALSE, groups |-> <<>>]
    IN IF gaps = {}
       THEN LET gs == groups(s) IN
            IF Len(gs) = 8 /\ good(gs) THEN [ok |-> TRUE, groups |-> values(gs)]
            ELSE bad
       ELSE IF Cardinality(gaps) > 1 THEN bad
       ELSE LET g == CHOOSE i \in gaps : TRUE
                front == groups(SubSeq(s, 1, g - 1))
                back == groups(SubSeq(s, g + 2, Len(s)))
            IN IF good(front) /\ good(back) /\ Len(front) + Len(back) <= 7
               THEN [ok |-> TRUE,
                     groups |-> values(front)
                                \o [i \in 1..(8 - Len(front) - Len(back)) |-> 0]
                                \o values(back)]
               ELSE bad

\* Display for Ipv4Addr
ShowIpv4(octets) == Join([i \in 1..4 |-> Numeral(octets[i], 10)], ".")

\* Display for Ipv6Addr: an IPv4-mapped address is ::ffff: and the IPv4
\* address in dotted form; otherwise the groups in hex, the first of the
\* longest runs of two or more zero groups written as "::".
ShowIpv6(g) ==
    LET hex(a, b) == Join([i \in 1..(b - a + 1) |-> Numeral(g[a + i - 1], 16)], ":")
        run(i) == CHOOSE n \in 0..8 :
                      /\ \A k \in i..(i + n - 1) : g[k] = 0
                      /\ i + n <= 8 => g[i + n] # 0
                      /\ i + n <= 9
        longest == CHOOSE i \in 1..8 :
                       /\ \A j \in 1..8 : run(j) <= run(i)
                       /\ \A j \in 1..(i - 1) : run(j) < run(i)
    IN IF \A i \in 1..5 : g[i] = 0 /\ g[6] = 65535
       THEN "::ffff:" \o ShowIpv4(<<g[7] \div 256, g[7] % 256,
                                    g[8] \div 256, g[8] % 256>>)
       ELSE IF run(longest) >= 2
       THEN hex(1, longest - 1) \o "::" \o hex(longest + run(longest), 8)
       ELSE hex(1, 8)

\* The values of MonetAddr.
Dns(host, port) == [kind |-> "Dns", host |-> host, port |-> port]
IpV4(octets, port) == [kind |-> "V4", host |-> octets, port |-> port]
IpV6(groups, port) == [kind |-> "V6", host |-> groups, port |-> port]
Unix(path) == [kind |-> "Unix", host |-> path, port |-> 0]
PortOnly(port) == [kind |-> "PortOnly", host |-> "", port |-> port]
None == [kind |-> "None", host |-> "", port |-> 0]

\* Path::display(): what is not valid UTF-8 is shown as U+FFFD.
Lossy(s) ==
    Join([i \in 1..Len(s) |-> IF Ch(s, i) = BadByte THEN Replacement ELSE Ch(s, i)],
         "")

\* impl Display for MonetAddr
Display(a) ==
    CASE a.kind = "Dns" -> a.host \o ":" \o Numeral(a.port, 10)
      [] a.kind = "V4" -> ShowIpv4(a.host) \o ":" \o Numeral(a.port, 10)
      [] a.kind = "V6" -> "[" \o ShowIpv6(a.host) \o "]:" \o Numeral(a.port, 10)
      [] a.kind = "Unix" -> Lossy(a.host)
      [] a.kind = "PortOnly" -> Numeral(a.port, 10)

\* The regex ^\d+.\d+.\d+.\d+$, in which a dot stands for any character.
LooksLikeIpv4(host) ==
    \E i, j, k \in 2..(Len(host) - 1) :
        /\ i + 1 < j /\ j + 1 < k
        /\ \A p \in 1..Len(host) : p \notin {i, j, k} => IsDigit(Ch(host, p))

\* The regex ^\[([0-9a-f:]+)\]$ without regard to case.
LooksLikeIpv6(host) ==
    /\ Len(host) >= 3
    /\ Ch(host, 1) = "[" /\ Ch(host, Len(host)) = "]"
    /\ AllOf(SubSeq(host, 2, Len(host) - 1), LAMBDA c : IsHex(c) \/ c = ":")

\* The regex ^[a-z0-9][-a-z0-9.]*$ without regard to case.
LooksLikeDns(host) ==
    /\ host # ""
    /\ Ch(host, 1) \in Chars(Letters) \cup Chars(Digits)
    /\ AllOf(host, LAMBDA c : c \in Chars(Letters) \cup Chars(Digits) \cup {"-", "."})

\* The parse function of try_from
Parse(os_value) ==
    IF Chars(os_value) \cap {"/", "\\"} # {} THEN Unix(os_value)
    ELSE IF BadByte \in Chars(os_value) THEN None
    ELSE IF ParseU16(os_value).ok THEN PortOnly(ParseU16(os_value).value)
    ELSE LET colons == {i \in 1..Len(os_value) : Ch(os_value, i) = ":"}
             c == CHOOSE i \in colons : \A j \in colons : j <= i
         IN IF colons = {} THEN None
            ELSE LET host_part == SubSeq(os_value, 1, c - 1)
                     port_part == SubSeq(os_value, c + 1, Len(os_value))
                     port == ParseU16(port_part)
                     ip6 == SubSeq(host_part, 2, Len(host_part) - 1)
                 IN IF host_part = "" \/ port_part = "" \/ ~AllOf(port_part, IsDigit)
                    THEN None
                    ELSE IF ~port.ok THEN None
                    ELSE IF LooksLikeIpv4(host_part)
                    THEN IF ParseIpv4(host_part).ok
                         THEN IpV4(ParseIpv4(host_part).octets, port.value)
                         ELSE None
                    ELSE IF LooksLikeIpv6(host_part)
                    THEN IF ParseIpv6(ip6).ok
                         THEN IpV6(ParseIpv6(ip6).groups, port.value)
                         ELSE None
                    ELSE IF LooksLikeDns(host_part) THEN Dns(host_part, port.value)
                    ELSE None

\* impl TryFromOsStr<&OsStr> for MonetAddr
TryFromOsStr(os_value) ==
    LET a == Parse(os_value) IN
    IF a # None THEN [ok |-> TRUE, addr |-> a, error |-> ""]
    ELSE [ok |-> FALSE, addr |-> None,
          error |-> "invalid address: " \o Lossy(os_value)]

\* The hosts, ports and whole addresses that are given.
Hosts ==
    {"1.2.3.4", "127.0.0.1", "10.0.0.255", "256.1.1.1", "01.2.3.4", "1a2b3c4",
     "1.2.3", "[::1]", "[::]", "[fe80::1]", "[FE80::1]", "[1:2:3:4:5:6:7:8]",
     "[1:0:0:2:0:0:0:3]", "[0:0:1:0:0:1:0:0]", "[2001:db8::]",
     "[::ffff:102:304]", "[0:0:0:0:0:ffff:7f00:1]", "[1::2::3]", "[12345::1]",
     "[1:2:3:4:5:6:7:8:9]", "[::ffff:1.2.3.4]", "[]", "localhost",
     "db-1.example.com", "Host", "x", "-bad", "a_b", ""}

Ports == {"50000", "0080", "0", "65535", "65536", "", "5x"}

Addresses ==
    {h \o ":" \o p : h \in Hosts, p \in Ports}
    \cup {"50000", "+80", "0", "65535", "65536", "-1", "", "localhost",
          "/tmp/.s.monetdb.50000", "./sock", "a\\b", "/", "/tmp/" \o BadByte,
          "host" \o BadByte \o ":50000"}

exceptAddr == <<writerVars, mapiVars, proxyVars, chanVars, proc, mapi_state, dial, pcap, abbr>>

\* An address is given on the command line.
InitAddr ==
    /\ NoWriter
    /\ NoMapi
    /\ NoProxy
    /\ NoChan
    /\ NoAbbr
    /\ NoSignal
    /\ NoState
    /\ NoDial
    /\ NoPcap
    /\ \E s \in Addresses :
           addr = [given |-> s, stage |-> "given", parsed |-> None,
                   error |-> "", shown |-> "", again |-> None]

\* MonetAddr::try_from on the address given
AddrParse ==
    /\ addr # <<>>
    /\ addr.stage = "given"
    /\ \E r \in {TryFromOsStr(addr.given)} :
           addr' = [addr EXCEPT !.stage = IF r.ok THEN "parsed" ELSE "invalid",
                                !.parsed = r.addr,
                                !.error = r.error]
    /\ UNCHANGED exceptAddr

\* The address parsed is displayed.
AddrDisplay ==
    /\ addr # <<>>
    /\ addr.stage = "parsed"
    /\ addr' = [addr EXCEPT !.stage = "shown", !.shown = Display(addr.parsed)]
    /\ UNCHANGED exceptAddr

\* MonetAddr::try_from on what was displayed
AddrParseAgain ==
    /\ addr # <<>>
    /\ addr.stage = "shown"
    /\ \E r \in {TryFromOsStr(addr.shown)} :
           addr' = [addr EXCEPT !.stage = "again",
                                !.again = r.addr,
                                !.error = r.error]
    /\ UNCHANGED exceptAddr

NextAddr ==
    \/ AddrParse
    \/ AddrDisplay
    \/ AddrParseAgain

SpecAddr == InitAddr /\ [][NextAddr]_vars

-----------------------------------------------------------------------------
(* Properties of the addresses.                                             *)

\* C20: what is parsed from the display of a parsed address is that address.
C20_RoundTrip == (addr # <<>> /\ addr.stage = "again") => addr.again = addr.parsed

-----------------------------------------------------------------------------
(* MonetAddr::resolve (addr.rs).  The system resolver is the environment:   *)
(* to_socket_addrs on a host name fails or gives socket addresses in the    *)
(* order of its choice; on an IP address it gives that address.  cfg!(unix) *)
(* is fixed when the program is built.                                      *)

\* The largest number of socket addresses the resolver gives for a name.
MaxAnswers == 2

\* The values of Addr.
AddrTcp(ip, port) == [kind |-> "Tcp", ip |-> ip, port |-> port]
AddrUnix(path) == [kind |-> "Unix", path |-> path]

\* The IP addresses the resolver may give for a name.
ResolverIps == {<<127, 0, 0, 1>>, <<10, 0, 0, 7>>, <<0, 0, 0, 0, 0, 0, 0, 1>>}

\* What to_socket_addrs may give for a name: an error or a list.
Lookups ==
    {[ok |-> FALSE, ips |-> <<>>]}
    \cup {[ok |-> TRUE, ips |-> ips] :
             ips \in UNION {[1..n -> ResolverIps] : n \in 0..MaxAnswers}}

\* The argument of gather in resolve_tcp: a host name or an IP address, and
\* a port; nothing for a path.
Query(a) ==
    CASE a.kind = "Unix" -> [kind |-> "none", host |-> "", port |-> 0]
      [] a.kind = "Dns" -> [kind |-> "name", host |-> a.host, port |-> a.port]
      [] a.kind \in {"V4", "V6"} -> [kind |-> "ip", host |-> a.host, port |-> a.port]
      [] a.kind = "PortOnly" -> [kind |-> "name", host |-> "localhost", port |-> a.port]

\* MonetAddr::resolve_tcp, the resolver answering a name with lookup
ResolveTcp(a, lookup) ==
    LET q == Query(a) IN
    CASE q.kind = "none" -> [ok |-> TRUE, addrs |-> <<>>]
      [] q.kind = "ip" -> [ok |-> TRUE, addrs |-> <<AddrTcp(q.host, q.port)>>]
      [] q.kind = "name" ->
            IF lookup.ok
            THEN [ok |-> TRUE,
                  addrs |-> [i \in DOMAIN lookup.ips |-> AddrTcp(lookup.ips[i], q.port)]]
            ELSE [ok |-> FALSE, addrs |-> <<>>]

\* MonetAddr::resolve_unix in a build where cfg!(unix) is unix
ResolveUnix(a, unix) ==
    IF unix
    THEN CASE a.kind \in {"Dns", "V4", "V6"} -> <<>>
           [] a.kind = "Unix" -> <<AddrUnix(a.host)>>
           [] a.kind = "PortOnly" ->
                 <<AddrUnix("/tmp/.s.monetdb." \o Numeral(a.port, 10))>>
    ELSE <<>>

\* resolve with the Unix address put after the TCP addresses
ResolveAppended(a, lookup, unix) ==
    LET tcp == ResolveTcp(a, lookup) IN
    IF ~tcp.ok THEN tcp
    ELSE [ok |-> TRUE, addrs |-> tcp.addrs \o ResolveUnix(a, unix)]

\* MonetAddr::resolve
Resolve(a, lookup, unix) ==
    LET tcp == ResolveTcp(a, lookup) IN
    IF ~tcp.ok THEN tcp
    ELSE [ok |-> TRUE, addrs |-> ResolveUnix(a, unix) \o tcp.addrs]

\* An address is given on the command line of a build for Unix or not.
InitResolve ==
    /\ NoWriter
    /\ NoMapi
    /\ NoProxy
    /\ NoChan
    /\ NoAbbr
    /\ NoSignal
    /\ NoState
    /\ NoDial
    /\ NoPcap
    /\ \E s \in Addresses, unix \in BOOLEAN :
           addr = [given |-> s, stage |-> "given", parsed |-> None,
                   error |-> "", unix |-> unix,
                   query |-> [kind |-> "none", host |-> "", port |-> 0],
                   lookup |-> [ok |-> TRUE, ips |-> <<>>],
                   resolved |-> [ok |-> TRUE, addrs |-> <<>>]]

\* resolve on the address parsed; the resolver answers as it likes when it
\* is asked for a name.
AddrResolve ==
    /\ addr # <<>>
    /\ addr.stage = "parsed"
    /\ \E lookup \in Lookups :
           /\ Query(addr.parsed).kind # "name" => lookup = [ok |-> TRUE, ips |-> <<>>]
           /\ addr' = [addr EXCEPT !.stage = "resolved",
                                   !.query = Query(addr.parsed),
                                   !.lookup = lookup,
                                   !.resolved = Resolve(addr.parsed, lookup, addr.unix)]
    /\ UNCHANGED exceptAddr

NextResolve ==
    \/ AddrParse
    \/ AddrResolve

SpecResolve == InitResolve /\ [][NextResolve]_vars

-----------------------------------------------------------------------------
(* Properties of resolve.                                                   *)

Resolved == addr # <<>> /\ addr.stage = "resolved"

\* The path of the Unix address of a MonetAddr, if it has one.
UnixPathOf(a) ==
    CASE a.kind = "Unix" -> <<a.host>>
      [] a.kind = "PortOnly" -> <<"/tmp/.s.monetdb." \o Numeral(a.port, 10)>>
      [] OTHER -> <<>>

\* The list starts with the Unix addresses of paths and goes on with TCP
\* addresses only, which are what the resolver gave for the name asked, in
\* its order and with the port of the address, or the IP address itself.
ListIs(paths) ==
    LET l == addr.resolved.addrs
        n == Len(paths)
        a == addr.parsed
    IN /\ Len(l) >= n
       /\ \A i \in 1..n : l[i] = [kind |-> "Unix", path |-> paths[i]]
       /\ \A i \in (n + 1)..Len(l) : l[i].kind = "Tcp" /\ l[i].port = a.port
       /\ a.kind = "Unix" => Len(l) = n
       /\ a.kind \in {"V4", "V6"} => Len(l) = n + 1 /\ l[n + 1].ip = a.host
       /\ a.kind \in {"Dns", "PortOnly"} =>
              /\ addr.query.host = (IF a.kind = "Dns" THEN a.host ELSE "localhost")
              /\ Len(l) = n + Len(addr.lookup.ips)
              /\ \A i \in 1..Len(addr.lookup.ips) : l[n + i].ip = addr.lookup.ips[i]

\* C21 as stated: every list resolve returns has the Unix address of a path
\* or lone port first, then the TCP addresses in resolver order.
C21_Original ==
    (Resolved /\ addr.resolved.ok) => ListIs(UnixPathOf(addr.parsed))

\* C21: in a build for Unix, a list resolve returns has the Unix address of
\* a path or of a lone port P (/tmp/.s.monetdb.P) first and then the TCP
\* addresses in resolver order (of localhost:P for a lone port, none for a
\* path); in a build for another platform the list has the TCP addresses
\* only; resolve returns the error when the resolver fails for the name.
C21_UnixFirst ==
    Resolved =>
        /\ addr.resolved.ok = addr.lookup.ok
        /\ addr.resolved.ok =>
               ListIs(IF addr.unix THEN UnixPathOf(addr.parsed) ELSE <<>>)

\* A lone port has resolved, in a build for Unix, to its socket path and two
\* addresses of localhost.
C21_Witness ==
    /\ Resolved
    /\ addr.unix
    /\ addr.parsed.kind = "PortOnly"
    /\ addr.resolved.ok
    /\ Len(addr.resolved.addrs) = 3
    /\ addr.resolved.addrs[1].kind = "Unix"
    /\ addr.resolved.addrs[2].ip # addr.resolved.addrs[3].ip

-----------------------------------------------------------------------------
(* The listeners of the proxy and their socket files (proxy/network.rs,     *)
(* main.rs).  In this part proc also holds the addresses still to listen on *)
(* (todo), the listeners the Proxy owns, the file system (files: which      *)
(* listener's socket is at each path, 0 for no file, Foreign for the socket *)
(* file of another process or of an earlier run), the paths this process    *)
(* has bound and how far the proxy is: new, running, draining, returned.    *)

\* The largest number of addresses the listen address resolves to.
MaxListeners == 2

\* The owner of a socket file that is not of this process.
Foreign == -1

SocketPaths == {"/tmp/.s.monetdb.50000", "/tmp/proxy.sock"}

\* The addresses the listen address may resolve to.
ListenAddrs == {AddrUnix(p) : p \in SocketPaths} \cup {AddrTcp(<<127, 0, 0, 1>>, 50000)}

\* The lists resolve returns for the listen address: at most one Unix
\* address, in front of the TCP addresses.
ListenLists ==
    {todo \in UNION {[1..n -> ListenAddrs] : n \in 1..MaxListeners} :
        \A i \in DOMAIN todo : todo[i].kind = "Unix" => i = 1}

\* The listener that made the socket file is live: a listener of this
\* process that has not been dropped, or one of another process.
LiveOwner(owner, path, listeners, foreign) ==
    IF owner = Foreign THEN path \in foreign
    ELSE \E i \in DOMAIN listeners : listeners[i].id = owner

\* The removal of a socket file that a live listener other than the one
\* removing it has made.
Robbed(path, owner, by) == [path |-> path, owner |-> owner, by |-> by]

\* MioListener::new for the listener with number id: bind; for a Unix
\* address a path in use is removed and bound again; another error of bind
\* (failed) is returned.
MioListenerNew(a, files, failed, id) ==
    IF failed THEN [ok |-> FALSE, listener |-> <<>>, files |-> files]
    ELSE IF a.kind = "Tcp"
    THEN [ok |-> TRUE, listener |-> [id |-> id, kind |-> "Tcp", path |-> ""],
          files |-> files]
    ELSE LET removed == IF files[a.path] # 0 THEN [files EXCEPT ![a.path] = 0]
                        ELSE files
         IN [ok |-> TRUE, listener |-> [id |-> id, kind |-> "Unix", path |-> a.path],
             files |-> [removed EXCEPT ![a.path] = id]]

\* impl Drop for MioListener: the file at the path of a Unix listener is
\* removed.
MioListenerDrop(l, files) ==
    IF l.kind = "Unix" THEN [files EXCEPT ![l.path] = 0] ELSE files

\* The listeners are dropped one after the other.
RECURSIVE DropAll(_, _)
DropAll(ls, files) ==
    IF ls = <<>> THEN files ELSE DropAll(Tail(ls), MioListenerDrop(Head(ls), files))

\* The files of live listeners that MioListener::new removes.
NewRobs(a, files, failed, id, listeners, foreign) ==
    IF /\ ~failed
       /\ a.kind = "Unix"
       /\ files[a.path] # 0
       /\ LiveOwner(files[a.path], a.path, listeners, foreign)
    THEN {Robbed(a.path, files[a.path], id)}
    ELSE {}

\* The files of other live listeners that dropping the listeners removes.
RECURSIVE DropRobs(_, _, _)
DropRobs(ls, files, foreign) ==
    IF ls = <<>> THEN {}
    ELSE LET l == Head(ls)
             robs == IF /\ l.kind = "Unix"
                        /\ files[l.path] \notin {0, l.id}
                        /\ LiveOwner(files[l.path], l.path, Tail(ls), foreign)
                     THEN {Robbed(l.path, files[l.path], l.id)}
                     ELSE {}
         IN robs \cup DropRobs(Tail(ls), MioListenerDrop(l, files), foreign)

exceptProc == <<writerVars, mapiVars, proxyVars, chanVars, mapi_state, dial, pcap, addr, abbr>>

\* mymain has parsed and resolved the listen address.
InitListen ==
    /\ NoWriter
    /\ NoMapi
    /\ NoProxy
    /\ NoChan
    /\ NoAbbr
    /\ NoState
    /\ NoDial
    /\ NoPcap
    /\ NoAddr
    /\ \E todo \in ListenLists, files \in [SocketPaths -> {0, Foreign}] :
       \E foreign \in SUBSET {p \in SocketPaths : files[p] = Foreign} :
           proc = [triggered |-> FALSE, invocations |-> 0, trigger_calls |-> 0,
                   exit |-> -1, exit_by |-> "none",
                   todo |-> todo, listeners |-> <<>>, files |-> files,
                   bound |-> {}, proxy |-> "new",
                   foreign |-> foreign, robbed |-> {}]

\* Proxy::new makes the next listener.  When MioListener::new fails,
\* Proxy::new returns the error, the listeners made so far are dropped and
\* main returns with the error.
ListenBind(failed) ==
    /\ Running
    /\ proc.proxy = "new"
    /\ proc.todo # <<>>
    /\ LET a == Head(proc.todo)
           r == MioListenerNew(a, proc.files, failed, Len(proc.listeners) + 1)
       IN IF r.ok
          THEN proc' = [proc EXCEPT !.todo = Tail(@),
                                    !.listeners = Append(@, r.listener),
                                    !.files = r.files,
                                    !.bound = IF a.kind = "Unix" THEN @ \cup {a.path}
                                              ELSE @,
                                    !.robbed = @ \cup
                                        NewRobs(a, proc.files, failed,
                                                Len(proc.listeners) + 1,
                                                proc.listeners, proc.foreign)]
          ELSE proc' = [proc EXCEPT !.files = DropAll(proc.listeners, r.files),
                                    !.listeners = <<>>,
                                    !.robbed = @ \cup
                                        DropRobs(proc.listeners, r.files,
                                                 proc.foreign),
                                    !.exit = 1, !.exit_by = "main"]
    /\ UNCHANGED exceptProc

\* run_proxy installs the Ctrl-C handler and spawns the thread of proxy.run().
ListenStart ==
    /\ Running
    /\ proc.proxy = "new"
    /\ proc.todo = <<>>
    /\ proc' = [proc EXCEPT !.proxy = "running"]
    /\ UNCHANGED exceptProc

\* Ctrl-C while the handler is installed.
ListenCtrlC ==
    /\ proc.proxy # "new"
    /\ CtrlC

\* The reactor finds that the trigger was called: it stops accepting and
\* drops its listeners.
ListenShutdown ==
    /\ Running
    /\ proc.proxy = "running"
    /\ proc.trigger_calls > 0
    /\ proc' = [proc EXCEPT !.proxy = "draining",
                            !.files = DropAll(proc.listeners, @),
                            !.robbed = @ \cup
                                DropRobs(proc.listeners, proc.files,
                                         proc.foreign),
                            !.listeners = <<>>]
    /\ UNCHANGED exceptProc

\* Another instance of the proxy is started on a path while this one runs:
\* its MioListener::new finds the path in use, removes the file and binds.
ListenForeign(path) ==
    /\ Running
    /\ path \notin proc.foreign
    /\ proc' = [proc EXCEPT
                   !.files = [@ EXCEPT ![path] = Foreign],
                   !.foreign = @ \cup {path},
                   !.robbed = @ \cup
                       IF /\ proc.files[path] # 0
                          /\ LiveOwner(proc.files[path], path, proc.listeners,
                                       proc.foreign)
                       THEN {Robbed(path, proc.files[path], Foreign)}
                       ELSE {}]
    /\ UNCHANGED exceptProc

\* The connections have ended: proxy.run() returns and the Proxy is dropped.
ListenProxyReturns ==
    /\ Running
    /\ proc.proxy = "draining"
    /\ proc' = [proc EXCEPT !.proxy = "returned"]
    /\ UNCHANGED exceptProc

\* The receive loop of run_proxy ends, mymain returns Ok.
ListenMainReturns ==
    /\ Running
    /\ proc.proxy = "returned"
    /\ proc' = [proc EXCEPT !.exit = 0, !.exit_by = "main"]
    /\ UNCHANGED exceptProc

\* mapi_state.handle returns an error: run_proxy and mymain return it and
\* the process ends while the thread of the proxy runs.
ListenHandleFails ==
    /\ Running
    /\ proc.proxy \in {"running", "draining"}
    /\ proc' = [proc EXCEPT !.exit = 1, !.exit_by = "main"]
    /\ UNCHANGED exceptProc

\* A thread panics (proxy.run().unwrap(), a panic of State::handle): the
\* hook of install_panic_hook calls process::exit(1).
ListenPanic ==
    /\ Running
    /\ proc.proxy \in {"running", "draining"}
    /\ proc' = [proc EXCEPT !.exit = 1, !.exit_by = "panic hook"]
    /\ UNCHANGED exceptProc

NextListen ==
    \/ \E failed \in BOOLEAN : ListenBind(failed)
    \/ ListenStart
    \/ ListenCtrlC
    \/ ListenShutdown
    \/ \E path \in SocketPaths : ListenForeign(path)
    \/ ListenProxyReturns
    \/ ListenMainReturns
    \/ ListenHandleFails
    \/ ListenPanic

SpecListen == InitListen /\ [][NextListen]_vars

-----------------------------------------------------------------------------
(* Properties of the listeners.                                             *)

\* C22: when the process has ended, by mymain returning, by a panic or by
\* the exit of the second Ctrl-C, no path that one of its listeners bound
\* has a socket file of this process.
C22_Unlinked ==
    ~Running => \A p \in proc.bound : proc.files[p] \notin 1..MaxListeners

\* C38: a Unix socket file is only ever removed by the listener that owns
\* it.  Creating a listener on a path never deletes the socket file of
\* another listener that is still live on that path, and dropping a listener
\* (also one dropped because a later bind of the same startup failed) never
\* deletes a socket file that a different listener has bound at the same
\* path in the meantime.
C38_OwnerOnly == proc.robbed = {}

-----------------------------------------------------------------------------
(* mapi/abbreviate.rs.  usize is modelled with UsizeBits bits; like 2^64,   *)
(* 2^UsizeBits is a multiple of the row width.  An overflow of + - * on     *)
(* usize panics in a build with overflow checks (debug) and wraps in one    *)
(* without (release): checks tells which build it is.                       *)

\* first and last range over 0..MaxLines.
MaxLines == 2

\* The longest data given to abbreviate_bin and to abbreviate_text.
MaxBin == 66
MaxText == 7

UsizeBits == 16
Usize == 2^UsizeBits

BINARY_BYTES_PER_LINE == 16

\* The function panicked.
Panicked == [panic |-> TRUE, first |-> <<>>, skipped |-> 0, last |-> <<>>]

\* Abbreviated::new
AbbreviatedNew(data, head, tail_len, checks) ==
    LET len == Len(data)
        sum == (head + tail_len) % Usize
        start == (len + Usize - tail_len) % Usize
    IN IF head + tail_len >= Usize /\ checks THEN Panicked
       ELSE IF sum >= len
       THEN [panic |-> FALSE, first |-> data, skipped |-> 0, last |-> <<>>]
       ELSE IF head > len THEN Panicked
       ELSE IF tail_len > len /\ checks THEN Panicked
       ELSE IF start > len THEN Panicked
       ELSE [panic |-> FALSE,
             first |-> SubSeq(data, 1, head),
             skipped |-> len - sum,
             last |-> SubSeq(data, start + 1, len)]

\* abbreviate_bin
AbbreviateBin(first, last, data, checks) ==
    LET len == Len(data)
        head == first * BINARY_BYTES_PER_LINE
        missing == ((Usize - len) % Usize) % BINARY_BYTES_PER_LINE
        rows == last * BINARY_BYTES_PER_LINE
        tail_len == (rows + Usize - missing) % Usize
    IN IF (head >= Usize \/ rows >= Usize \/ rows < missing) /\ checks THEN Panicked
       ELSE AbbreviatedNew(data, head % Usize, tail_len, checks)

\* memchr(b'\n', s)
Memchr(s) ==
    IF \A i \in DOMAIN s : s[i] # NL THEN -1
    ELSE (CHOOSE i \in DOMAIN s : s[i] = NL /\ \A j \in 1..(i - 1) : s[j] # NL) - 1

\* memrchr(b'\n', s)
Memrchr(s) ==
    IF \A i \in DOMAIN s : s[i] # NL THEN -1
    ELSE (CHOOSE i \in DOMAIN s : s[i] = NL /\ \A j \in (i + 1)..Len(s) : s[j] # NL) - 1

\* The loop of first_n_lines with n rounds to go, at pos.
RECURSIVE FirstLoop(_, _, _)
FirstLoop(n, data, pos) ==
    IF n = 0 THEN pos
    ELSE LET len == Memchr(SubSeq(data, pos + 1, Len(data))) IN
         IF len = -1 THEN Len(data)
         ELSE FirstLoop(n - 1, data, pos + len + 1)

\* first_n_lines
FirstNLines(n, data) == FirstLoop(n, data, 0)

\* The loop of last_n_lines with n rounds to go, at pos.
RECURSIVE LastLoop(_, _, _)
LastLoop(n, data, pos) ==
    IF n = 0 \/ pos = 0 THEN pos
    ELSE LET p == IF data[pos] = NL THEN pos - 1 ELSE pos
             i == Memrchr(SubSeq(data, 1, p))
         IN LastLoop(n - 1, data, IF i = -1 THEN 0 ELSE i + 1)

\* last_n_lines that takes a newline at pos - 1 for the end of the line
\* before.
LastNLinesKeepsNewline(n, data) ==
    LET RECURSIVE loop(_, _)
        loop(k, pos) ==
            IF k = 0 \/ pos = 0 THEN pos
            ELSE LET i == Memrchr(SubSeq(data, 1, pos))
                 IN loop(k - 1, IF i = -1 THEN 0 ELSE i + 1)
    IN IF n = 0 \/ data = <<>> THEN 0 ELSE Len(data) - loop(n, Len(data))

\* last_n_lines
LastNLines(n, data) ==
    IF n = 0 \/ data = <<>> THEN 0 ELSE Len(data) - LastLoop(n, data, Len(data))

\* abbreviate_text
AbbreviateText(first, last, data, checks) ==
    AbbreviatedNew(data, FirstNLines(first, data), LastNLines(last, data), checks)

\* abbreviate
Abbreviate(is_binary, first, last, data, checks) ==
    IF is_binary THEN AbbreviateBin(first, last, data, checks)
    ELSE AbbreviateText(first, last, data, checks)

\* The data given: binary data of every length, every byte different from
\* its neighbours, and every text of the letter a and newlines.
BinData == {[i \in 1..n |-> i % 256] : n \in 0..MaxBin}
TextData == UNION {[1..n -> {97, NL}] : n \in 0..MaxText}

exceptAbbr == <<writerVars, mapiVars, proxyVars, chanVars, proc, mapi_state, dial, pcap, addr>>

\* abbreviate is about to be called.
InitAbbr ==
    /\ NoWriter
    /\ NoMapi
    /\ NoProxy
    /\ NoChan
    /\ NoSignal
    /\ NoState
    /\ NoDial
    /\ NoPcap
    /\ NoAddr
    /\ \E is_binary, checks \in BOOLEAN, first, last \in 0..MaxLines :
       \E data \in (IF is_binary THEN BinData ELSE TextData) :
           abbr = [is_binary |-> is_binary, first |-> first, last |-> last,
                   data |-> data, checks |-> checks, done |-> FALSE,
                   result |-> [panic |-> FALSE, first |-> <<>>, skipped |-> 0,
                               last |-> <<>>]]

\* The call of abbreviate.
AbbrCall ==
    /\ abbr # <<>>
    /\ ~abbr.done
    /\ abbr' = [abbr EXCEPT !.done = TRUE,
                            !.result = Abbreviate(abbr.is_binary, abbr.first,
                                                  abbr.last, abbr.data, abbr.checks)]
    /\ UNCHANGED exceptAbbr

NextAbbr == AbbrCall

SpecAbbr == InitAbbr /\ [][NextAbbr]_vars

-----------------------------------------------------------------------------
(* Properties of abbreviate.                                                *)

IsSuffix(a, b) == Len(a) <= Len(b) /\ a = SubSeq(b, Len(b) - Len(a) + 1, Len(b))

\* C23: abbreviate_bin returns first, a prefix of data, and last, a suffix,
\* with first.len() + skipped + last.len() == data.len(); either nothing is
\* skipped or the skipped range starts at first * 16 and ends at a multiple
\* of 16.
C23_Bin ==
    (abbr # <<>> /\ abbr.done /\ abbr.is_binary) =>
        LET r == abbr.result
            gap_start == Len(r.first)
            gap_end == Len(abbr.data) - Len(r.last)
        IN /\ ~r.panic
           /\ IsPrefix(r.first, abbr.data)
           /\ IsSuffix(r.last, abbr.data)
           /\ Len(r.first) + r.skipped + Len(r.last) = Len(abbr.data)
           /\ \/ r.skipped = 0
              \/ /\ gap_start = abbr.first * BINARY_BYTES_PER_LINE
                 /\ gap_end % BINARY_BYTES_PER_LINE = 0

\* C24: when data has more than n + m lines, abbreviate_text(n, m, data)
\* returns its first n lines as first, its last m lines as last (the final
\* line with or without a newline) and the number of bytes between them as
\* skipped; when data has at most n + m lines, first is data, last is empty
\* and skipped is 0.
C24_Text ==
    (abbr # <<>> /\ abbr.done /\ ~abbr.is_binary) =>
        LET r == abbr.result
            ls == LinesOf(abbr.data)
            n == abbr.first
            m == abbr.last
        IN /\ ~r.panic
           /\ r.skipped = Len(abbr.data) - Len(r.first) - Len(r.last)
           /\ IF Len(ls) > n + m
              THEN /\ r.first = Concat(SubSeq(ls, 1, n))
                   /\ r.last = Concat(SubSeq(ls, Len(ls) - m + 1, Len(ls)))
              ELSE /\ r.first = abbr.data
                   /\ r.last = <<>>
                   /\ r.skipped = 0

\* A text of four lines, an empty one among them and the last one without a
\* newline, was abbreviated to its first and its last line.
C24_Witness ==
    /\ abbr # <<>> /\ abbr.done /\ ~abbr.is_binary
    /\ abbr.first = 1 /\ abbr.last = 1
    /\ Len(LinesOf(abbr.data)) = 4
    /\ abbr.data[Len(abbr.data)] # NL
    /\ \E i \in 1..(Len(abbr.data) - 1) : abbr.data[i] = NL /\ abbr.data[i + 1] = NL
    /\ abbr.result.skipped > 0
    /\ abbr.result.first # <<>>
    /\ abbr.result.last # <<>>

-----------------------------------------------------------------------------
(* pcap/mod.rs, parse_pcap_ng: the timestamp resolution of legacy Packet     *)
(* blocks.  A u32 is kept as two 16-bit limbs <<hi, lo>>, so that the        *)
(* wrap-around of base.pow() at 2^32 is computed, not assumed.  An overflow  *)
(* panics in a build with overflow checks and wraps in one without.          *)

\* The legacy Packet blocks carry timestamps of 0..MaxUnits units.
MaxUnits == 2

Limb == 2^16

\* Duration::from_secs(1) in nanoseconds, the precision of Duration.
NanosPerSec == 10^9

\* u32 multiplication by a small factor: the wrapped product and whether
\* it overflowed.
MulU32(x, factor) ==
    LET lo == x[2] * factor
        hi == x[1] * factor + (lo \div Limb)
    IN [value |-> <<hi % Limb, lo % Limb>>, overflow |-> hi >= Limb]

\* u32::pow as a product of factors base^4 and base: the wrapped power and
\* whether a multiplication overflowed.  (The std algorithm squares; it
\* overflows exactly when the power does not fit, and wraps to the same
\* value.)
PowStep(r, base) ==
    [value |-> MulU32(r.value, base).value,
     overflow |-> r.overflow \/ MulU32(r.value, base).overflow]

RECURSIVE PowU32(_, _)
PowU32(base, exp) ==
    IF exp = 0 THEN [value |-> <<0, 1>>, overflow |-> FALSE]
    ELSE IF exp >= 4
    THEN CHOOSE p \in {PowStep(r, base^4) : r \in {PowU32(base, exp - 4)}} : TRUE
    ELSE CHOOSE p \in {PowStep(r, base) : r \in {PowU32(base, exp - 1)}} : TRUE

\* let base = if reso & 0x80 == 0 { 10u32 } else { 2 };
Base(reso) == IF reso \div 128 = 0 THEN 10 ELSE 2

\* Duration::from_secs(1) / divisor, in nanoseconds: Duration truncates to
\* whole nanoseconds; -1 stands for the panic of a division by zero.
DurationDiv(divisor) ==
    IF divisor = <<0, 0>> THEN -1
    ELSE IF divisor[1] >= Limb \div 2 THEN 0
    ELSE NanosPerSec \div (divisor[1] * Limb + divisor[2])

\* Duration * u32 for a Duration of at most a second, as <<secs, nanos>>.
DurationMul(ns, units) ==
    IF ns = NanosPerSec THEN <<units, 0>>
    ELSE <<(ns * units) \div NanosPerSec, (ns * units) % NanosPerSec>>

\* The IfTsResol arm: the reader after the option, or the panic.
IfTsResol(reso, checks) ==
    CHOOSE after \in
        {IF checks /\ divisor.overflow
         THEN [panic |-> "attempt to multiply with overflow", resolution |-> 0]
         ELSE IF DurationDiv(divisor.value) = -1
         THEN [panic |-> "divide by zero error when dividing duration by scalar",
               resolution |-> 0]
         ELSE [panic |-> "none", resolution |-> DurationDiv(divisor.value)] :
             divisor \in {PowU32(Base(reso), reso % 128)}} : TRUE

\* The reader of a pcapng file before its first block: the resolution is
\* Duration::from_micros(1).  The file has an Interface Description block
\* with the option IfTsResol(reso); checks tells the build.
InitPcapNg ==
    /\ NoWriter
    /\ NoMapi
    /\ NoProxy
    /\ NoChan
    /\ NoAbbr
    /\ NoSignal
    /\ NoState
    /\ NoDial
    /\ NoAddr
    /\ \E reso \in 0..255, checks \in BOOLEAN :
           pcap = [reso |-> reso, checks |-> checks, stage |-> "start",
                   panic |-> "none", timestamp_resolution |-> 1000,
                   units |-> 0, timestamp |-> <<0, 0>>]

\* Block::InterfaceDescription with the option IfTsResol.
PcapNgInterface ==
    /\ pcap # <<>>
    /\ pcap.stage = "start"
    /\ \E r \in {IfTsResol(pcap.reso, pcap.checks)} :
           pcap' = IF r.panic # "none"
                   THEN [pcap EXCEPT !.stage = "panicked", !.panic = r.panic]
                   ELSE [pcap EXCEPT !.stage = "described",
                                     !.timestamp_resolution = r.resolution]
    /\ UNCHANGED exceptPcap

\* Block::Packet: the timestamp is the resolution times the units.
PcapNgPacket(units) ==
    /\ pcap # <<>>
    /\ pcap.stage \in {"described", "packet"}
    /\ pcap' = [pcap EXCEPT !.stage = "packet", !.units = units,
                            !.timestamp =
                                DurationMul(pcap.timestamp_resolution, units)]
    /\ UNCHANGED exceptPcap

NextPcapNg ==
    \/ PcapNgInterface
    \/ \E units \in 0..MaxUnits : PcapNgPacket(units)

SpecPcapNg == InitPcapNg /\ [][NextPcapNg]_vars

-----------------------------------------------------------------------------
(* Properties of the pcapng timestamp resolution.                           *)

\* n is base to the power exp.
RECURSIVE IsPower(_, _, _)
IsPower(n, base, exp) ==
    IF exp = 0 THEN n = 1
    ELSE n % base = 0 /\ IsPower(n \div base, base, exp - 1)

\* ns nanoseconds are exactly base^(-exp) seconds.
IsResolution(ns, base, exp) ==
    /\ ns > 0
    /\ NanosPerSec % ns = 0
    /\ IsPower(NanosPerSec \div ns, base, exp)

\* C39: for every IfTsResol value v in 0..255 the timestamp resolution used
\* for the legacy Packet blocks after the Interface Description block is
\* 10^(-(v & 0x7F)) seconds when the top bit of v is clear and
\* 2^(-(v & 0x7F)) seconds when it is set: the option is processed without a
\* panic, and a packet with n units is given the timestamp n times that.
C39_Resolution ==
    (pcap # <<>> /\ pcap.stage # "start") =>
        LET exp == pcap.reso % 128
            base == IF pcap.reso < 128 THEN 10 ELSE 2
        IN /\ pcap.panic = "none"
           /\ IsResolution(pcap.timestamp_resolution, base, exp)
           /\ pcap.stage = "packet" =>
                  IF pcap.timestamp_resolution = NanosPerSec
                  THEN pcap.timestamp = <<pcap.units, 0>>
                  ELSE pcap.timestamp[1] * NanosPerSec + pcap.timestamp[2] =
                           pcap.units * pcap.timestamp_resolution

-----------------------------------------------------------------------------
(* The events of the connections, from the producer to State::handle.  The   *)
(* producer is the proxy engine (spec.md 4.1) or the pcap reassembler        *)
(* (spec.md 4.3); every event it emits is handled by mapi::State, whose      *)
(* table of accumulators is in mapi_state with the panic it died of.  pcap   *)
(* holds the producer: its kind, the state of each connection or flow, and   *)
(* the events emitted so far.                                                *)

\* Number of steps (sockets' readiness, packets) a connection or flow takes.
MaxSteps == 4

\* An event of connection id.
Ev(event, id) == [event |-> event, id |-> id]

\* The events that need the accumulators of the connection.
NeedAccs == {"Data", "ShutdownRead"}

\* State::handle, as far as the table of accumulators goes: add_connection
\* panics when the id has accumulators, remove_connection when it has none,
\* and so do the Data arm and check_incomplete.
StateHandle(st, ev) ==
    IF st.panic # "none" THEN st
    ELSE CASE ev.event = "Incoming" ->
                 IF ev.id \in DOMAIN st.accs
                 THEN [st EXCEPT !.panic = "Already have state for incoming connection"]
                 ELSE [st EXCEPT !.accs = AddConnection(@, ev.id, st.level, FALSE)]
           [] ev.event \in {"End", "Aborted"} ->
                 IF ev.id \notin DOMAIN st.accs
                 THEN [st EXCEPT !.panic = "Found no state to remove for end event"]
                 ELSE [st EXCEPT !.accs = RemoveConnection(@, ev.id)]
           [] ev.event \in NeedAccs ->
                 IF ev.id \notin DOMAIN st.accs
                 THEN [st EXCEPT !.panic = "got data but don't have accumulators"]
                 ELSE st
           [] OTHER -> st

\* The events evs are handled one after the other.
RECURSIVE HandleAll(_, _)
HandleAll(st, evs) ==
    IF evs = <<>> THEN st ELSE HandleAll(StateHandle(st, Head(evs)), Tail(evs))

\* A connection or flow that has not begun.
NoFlow == [state |-> "none", data |-> FALSE, fin |-> {}, steps |-> 0]

exceptEvents == <<writerVars, mapiVars, proxyVars, chanVars, proc, dial, addr, abbr>>

InitEvents ==
    /\ NoWriter
    /\ NoMapi
    /\ NoProxy
    /\ NoChan
    /\ NoAbbr
    /\ NoSignal
    /\ NoDial
    /\ NoAddr
    /\ \E source \in {"proxy", "pcap"}, level \in Levels :
           /\ pcap = [source |-> source, stage |-> "running",
                      flows |-> [id \in ConnectionIds |-> NoFlow],
                      events |-> <<>>]
           /\ mapi_state = [level |-> level, accs |-> <<>>, panic |-> "none"]

\* A step of connection or flow id: it becomes f and the events evs are
\* emitted and handled.
Emit(id, f, evs) ==
    /\ mapi_state.panic = "none"
    /\ pcap.stage = "running"
    /\ pcap.flows[id].steps < MaxSteps
    /\ pcap' = [pcap EXCEPT !.flows[id] = [f EXCEPT !.steps = @ + 1],
                            !.events = @ \o evs]
    /\ \E st \in {HandleAll(mapi_state, evs)} : mapi_state' = st
    /\ UNCHANGED exceptEvents

\* The proxy engine accepts a client and starts to connect to the server:
\* the ids are given in the order of the accepts.
EngineAccept(id) ==
    /\ pcap.source = "proxy"
    /\ pcap.flows[id].state = "none"
    /\ \A j \in ConnectionIds : j < id => pcap.flows[j].state # "none"
    /\ Emit(id, [pcap.flows[id] EXCEPT !.state = "Connecting"],
            <<Ev("Incoming", id), Ev("Connecting", id)>>)

\* Connecting -> Established
EngineConnected(id) ==
    /\ pcap.source = "proxy"
    /\ pcap.flows[id].state = "Connecting"
    /\ Emit(id, [pcap.flows[id] EXCEPT !.state = "Established"],
            <<Ev("Connected", id)>>)

\* Connecting -> Closed: no forward candidate is left
EngineConnectFailed(id) ==
    /\ pcap.source = "proxy"
    /\ pcap.flows[id].state = "Connecting"
    /\ Emit(id, [pcap.flows[id] EXCEPT !.state = "Closed"],
            <<Ev("ConnectFailed", id), Ev("Aborted", id)>>)

\* Bytes are read from the sender of direction d.
EngineData(id, d) ==
    /\ pcap.source = "proxy"
    /\ pcap.flows[id].state \in {"Established", "HalfClosed"}
    /\ d \notin pcap.flows[id].fin
    /\ Emit(id, [pcap.flows[id] EXCEPT !.data = TRUE], <<Ev("Data", id)>>)

\* The sender of direction d signalled EOF; when the other one has too, the
\* connection is closed.
EngineEof(id, d) ==
    /\ pcap.source = "proxy"
    /\ pcap.flows[id].state \in {"Established", "HalfClosed"}
    /\ d \notin pcap.flows[id].fin
    /\ IF pcap.flows[id].state = "Established"
       THEN Emit(id, [pcap.flows[id] EXCEPT !.state = "HalfClosed",
                                            !.fin = @ \cup {d}],
                 <<Ev("ShutdownRead", id), Ev("ShutdownWrite", id)>>)
       ELSE Emit(id, [pcap.flows[id] EXCEPT !.state = "Closed",
                                            !.fin = @ \cup {d}],
                 <<Ev("ShutdownRead", id), Ev("ShutdownWrite", id),
                   Ev("End", id)>>)

\* A hard error on a socket of the connection.
EngineAbort(id) ==
    /\ pcap.source = "proxy"
    /\ pcap.flows[id].state \in {"Established", "HalfClosed"}
    /\ Emit(id, [pcap.flows[id] EXCEPT !.state = "Closed"],
            <<Ev("Aborted", id)>>)

\* The reassembler reads the SYN of a flow: the half-flow is established.
FlowSyn(id) ==
    /\ pcap.source = "pcap"
    /\ pcap.flows[id].state = "none"
    /\ Emit(id, [pcap.flows[id] EXCEPT !.state = "Open"], <<>>)

\* A segment with payload: the first data byte of the flow emits Incoming,
\* Connecting and Connected; the payload is emitted as Data.
FlowPayload(id, d) ==
    /\ pcap.source = "pcap"
    /\ pcap.flows[id].state = "Open"
    /\ d \notin pcap.flows[id].fin
    /\ Emit(id, [pcap.flows[id] EXCEPT !.data = TRUE],
            (IF pcap.flows[id].data THEN <<>>
             ELSE <<Ev("Incoming", id), Ev("Connecting", id),
                    Ev("Connected", id)>>)
            \o <<Ev("Data", id)>>)

\* FIN emits ShutdownRead; the FIN of the second half ends the flow.
FlowFin(id, d) ==
    /\ pcap.source = "pcap"
    /\ pcap.flows[id].state = "Open"
    /\ d \notin pcap.flows[id].fin
    /\ IF pcap.flows[id].fin = {}
       THEN Emit(id, [pcap.flows[id] EXCEPT !.fin = {d}],
                 <<Ev("ShutdownRead", id)>>)
       ELSE Emit(id, [pcap.flows[id] EXCEPT !.fin = Directions,
                                            !.state = "Closed"],
                 <<Ev("ShutdownRead", id), Ev("End", id)>>)

\* RST emits Aborted.
FlowRst(id) ==
    /\ pcap.source = "pcap"
    /\ pcap.flows[id].state = "Open"
    /\ Emit(id, [pcap.flows[id] EXCEPT !.state = "Closed"],
            <<Ev("Aborted", id)>>)

\* The flows that are open at the end of the capture, in the order of their
\* ids, each with its End.
RECURSIVE StillOpen(_, _)
StillOpen(flows, ids) ==
    IF ids = {} THEN <<>>
    ELSE LET id == CHOOSE i \in ids : \A j \in ids : i <= j
         IN (IF flows[id].state = "Open" THEN <<Ev("End", id)>> ELSE <<>>)
            \o StillOpen(flows, ids \ {id})

\* End of capture: every flow that is still open emits End.
FlowEndOfCapture ==
    /\ pcap.source = "pcap"
    /\ pcap.stage = "running"
    /\ mapi_state.panic = "none"
    /\ \E evs \in {StillOpen(pcap.flows, ConnectionIds)} :
           /\ pcap' = [pcap EXCEPT
                          !.stage = "done",
                          !.flows = [id \in ConnectionIds |->
                                        IF @[id].state = "Open"
                                        THEN [@[id] EXCEPT !.state = "Closed"]
                                        ELSE @[id]],
                          !.events = @ \o evs]
           /\ \E st \in {HandleAll(mapi_state, evs)} : mapi_state' = st
    /\ UNCHANGED exceptEvents

NextEvents ==
    \/ \E id \in ConnectionIds : EngineAccept(id)
    \/ \E id \in ConnectionIds : EngineConnected(id)
    \/ \E id \in ConnectionIds : EngineConnectFailed(id)
    \/ \E id \in ConnectionIds, d \in Directions : EngineData(id, d)
    \/ \E id \in ConnectionIds, d \in Directions : EngineEof(id, d)
    \/ \E id \in ConnectionIds : EngineAbort(id)
    \/ \E id \in ConnectionIds : FlowSyn(id)
    \/ \E id \in ConnectionIds, d \in Directions : FlowPayload(id, d)
    \/ \E id \in ConnectionIds, d \in Directions : FlowFin(id, d)
    \/ \E id \in ConnectionIds : FlowRst(id)
    \/ FlowEndOfCapture

SpecEvents == InitEvents /\ [][NextEvents]_vars

-----------------------------------------------------------------------------
(* Properties of the events of a connection.                                 *)

\* The events of connection id, in the order emitted.
EventsOf(id) ==
    LET es == SelectSeq(pcap.events, LAMBDA e : e.id = id)
    IN [j \in DOMAIN es |-> es[j].event]

\* The grammar of a connection's events: Incoming first and only first, End
\* or Aborted at most once and last.
Grammar(es) ==
    \A j \in DOMAIN es :
        /\ (es[j] = "Incoming") <=> (j = 1)
        /\ es[j] \in {"End", "Aborted"} => j = Len(es)

\* The connections that have come and not gone.
LiveIds ==
    {id \in ConnectionIds :
        LET es == EventsOf(id)
        IN es # <<>> /\ es[Len(es)] \notin {"End", "Aborted"}}

\* C33: the events of every connection form Incoming, other events, then one
\* End or Aborted and nothing after; the table of accumulators holds the live
\* connections and State::handle has not panicked; at the end of a capture
\* every flow that has emitted events has ended.
C33_Grammar ==
    pcap # <<>> =>
        /\ \A id \in ConnectionIds : Grammar(EventsOf(id))
        /\ mapi_state.panic = "none"
        /\ DOMAIN mapi_state.accs = LiveIds
        /\ pcap.stage = "done" => LiveIds = {}

\* The part of C33 about the proxy engine.
C33_Engine == (pcap # <<>> /\ pcap.source = "proxy") => C33_Grammar

\* The part of C33 about a flow with data: the grammar holds for the flows of
\* a capture as long as no flow has its FIN, its RST or the end of the capture
\* before its first data byte.
C33_FlowsWithData ==
    (/\ pcap # <<>>
     /\ pcap.source = "pcap"
     /\ \A id \in ConnectionIds :
            LET es == EventsOf(id) IN es # <<>> => es[1] = "Incoming")
    => C33_Grammar

-----------------------------------------------------------------------------
(* main.rs, run_proxy and mymain, from the shutdown trigger to the exit of   *)
(* the process.  proc holds besides the Ctrl-C handler's state the           *)
(* connections the reactor serves (live), whether it still accepts, and      *)
(* whether mymain has flushed the renderer.                                  *)

\* A recv that fails as soon as the sender is dropped.
RecvFailsEager(q, sender_alive) == ~sender_alive

\* Receiver::recv returns Err when the channel is empty and the sender has
\* been dropped: `while let Ok((ts, ev)) = receive_events.recv()` ends.
RecvFails(q, sender_alive) == q = <<>> /\ ~sender_alive

\* The reactor loop exits: the trigger has fired and the connections that
\* existed have ended.
LoopExits(triggered, live) == triggered /\ live = {}

exceptShutdown == <<writerVars, mapiVars, proxyVars, mapi_state, dial, pcap, addr, abbr>>

InitShutdown ==
    /\ NoWriter
    /\ NoMapi
    /\ NoProxy
    /\ NoState
    /\ NoDial
    /\ NoPcap
    /\ NoAddr
    /\ NoAbbr
    /\ queue = <<>>
    /\ emitted = <<>>
    /\ handled = <<>>
    /\ threads = [reactor |-> "running", consumer |-> "running",
                  pending |-> <<>>, failed |-> 0]
    /\ proc = [triggered |-> FALSE, invocations |-> 0, trigger_calls |-> 0,
               exit |-> -1, exit_by |-> "none", live |-> {}, accepted |-> {},
               flushed |-> FALSE]

\* The handler is called with the next event of connection id: the send ends
\* or the reactor waits in it.
HandlerSends(id) ==
    LET o == SendOutcome(queue, threads.consumer = "running") IN
    IF o = "Block"
    THEN /\ threads' = [threads EXCEPT !.reactor = "blocked",
                                       !.pending = <<NextEvent(id)>>]
         /\ UNCHANGED <<queue, emitted>>
    ELSE SendEnds(o, NextEvent(id))

\* The reactor accepts a connection; after the trigger it accepts none.
ShutdownAccept(id) ==
    /\ Running
    /\ threads.reactor = "running"
    /\ ~proc.triggered
    /\ id \notin proc.accepted
    /\ HandlerSends(id)
    /\ proc' = [proc EXCEPT !.live = @ \cup {id}, !.accepted = @ \cup {id}]
    /\ UNCHANGED <<handled, exceptShutdown>>

\* An event of a connection that goes on.
ShutdownEmit(id) ==
    /\ Running
    /\ threads.reactor = "running"
    /\ id \in proc.live
    /\ Len(emitted) < MaxEmit
    /\ HandlerSends(id)
    /\ UNCHANGED <<proc, handled, exceptShutdown>>

\* A connection ends: End or Aborted is its last event.
ShutdownConnEnds(id) ==
    /\ Running
    /\ threads.reactor = "running"
    /\ id \in proc.live
    /\ HandlerSends(id)
    /\ proc' = [proc EXCEPT !.live = @ \ {id}]
    /\ UNCHANGED <<handled, exceptShutdown>>

\* The blocked send wakes up.
ShutdownSendReturns ==
    /\ Running
    /\ ReactorSendReturns

\* proxy.run() returns, the thread ends and drops the proxy with the handler
\* and its sender.
ShutdownLoopExits ==
    /\ Running
    /\ threads.reactor = "running"
    /\ LoopExits(proc.triggered, proc.live)
    /\ threads' = [threads EXCEPT !.reactor = "ended"]
    /\ UNCHANGED <<queue, emitted, handled, proc, exceptShutdown>>

\* The consumer's loop handles the event recv returns.
ShutdownHandle(ok) ==
    /\ Running
    /\ ConsumerHandle(ok)

\* recv fails: the loop ends and run_proxy returns Ok.
ShutdownRecvFails ==
    /\ Running
    /\ threads.consumer = "running"
    /\ RecvFails(queue, threads.reactor # "ended")
    /\ threads' = [threads EXCEPT !.consumer = "ended"]
    /\ UNCHANGED <<queue, emitted, handled, proc, exceptShutdown>>

\* Ctrl-C, as often as the user likes.
ShutdownCtrlC ==
    /\ Running
    /\ proc.invocations < MaxSignals
    /\ proc' = [CtrlCHandler(proc) EXCEPT !.invocations = @ + 1]
    /\ UNCHANGED <<chanVars, exceptShutdown>>

\* mymain after run_proxy: Ok, renderer.flush() and status 0; Err, status 1
\* without the flush.
ShutdownMainReturns ==
    /\ Running
    /\ threads.consumer \in {"ended", "failed"}
    /\ proc' = IF threads.consumer = "ended"
               THEN [proc EXCEPT !.flushed = TRUE, !.exit = 0, !.exit_by = "main"]
               ELSE [proc EXCEPT !.exit = 1, !.exit_by = "main"]
    /\ UNCHANGED <<chanVars, exceptShutdown>>

NextShutdown ==
    \/ \E id \in ConnectionIds : ShutdownAccept(id)
    \/ \E id \in ConnectionIds : ShutdownEmit(id)
    \/ \E id \in ConnectionIds : ShutdownConnEnds(id)
    \/ ShutdownSendReturns
    \/ ShutdownLoopExits
    \/ \E ok \in BOOLEAN : ShutdownHandle(ok)
    \/ ShutdownRecvFails
    \/ ShutdownCtrlC
    \/ ShutdownMainReturns

\* The threads are scheduled: a send that can return does, the consumer
\* receives what the channel holds, the loops end when they can and mymain
\* returns; and every connection ends in time.
SpecShutdown ==
    /\ InitShutdown
    /\ [][NextShutdown]_vars
    /\ \A id \in ConnectionIds : WF_vars(ShutdownConnEnds(id))
    /\ WF_vars(ShutdownSendReturns)
    /\ WF_vars(ShutdownLoopExits)
    /\ WF_vars(\E ok \in BOOLEAN : ShutdownHandle(ok))
    /\ WF_vars(ShutdownRecvFails)
    /\ WF_vars(ShutdownMainReturns)

-----------------------------------------------------------------------------
(* Properties of the shutdown.                                               *)

\* The process has ended as the shutdown is meant to: the reactor loop has
\* exited, the channel is closed and empty, every event emitted was handled,
\* the renderer is flushed and the exit status is 0.
Graceful ==
    /\ proc.exit = 0
    /\ threads.reactor = "ended"
    /\ threads.consumer = "ended"
    /\ queue = <<>>
    /\ handled = emitted
    /\ proc.flushed

====
